---- MODULE Spec2Model ----
(***************************************************************************)
(* Model of the R2 uploader plugin: the uploader (src/r2-uploader.ts), the  *)
(* drop and paste pipeline and the plugin class of the main module         *)
(* (src/unnamed/part_001, lines 478-725) and the debounced saves of the    *)
(* settings tab (src/unnamed/part_002).                                    *)
(*                                                                         *)
(* A JavaScript string is a sequence of chunks, each chunk a TLA+ string;  *)
(* the string it stands for is the concatenation Str(t).  Every value the  *)
(* code inspects character by character (paths, names, types, endpoints,   *)
(* error messages, the editor line) is made of one-character chunks; the   *)
(* literals of the code that are only concatenated are single chunks.      *)
(***************************************************************************)
EXTENDS Integers, Sequences, FiniteSets, TLC

VARIABLES
    settings,       \* the plugin's settings snapshot (R2UploaderSettings)
    now,            \* Date.now(), in milliseconds
    year,           \* new Date().getFullYear()
    activeView,     \* app.workspace.getActiveViewOfType(MarkdownView) is non-null
    activePath,     \* app.workspace.getActiveFile()?.path, <<>> when there is none
    line,           \* the editor line the cursor is on
    cursor,         \* editor.getCursor().ch
    pc,             \* position of the gesture / call: "idle", "uploading", "called", "done"
    files,          \* the files handed to processImages
    uploads,        \* one record per uploadFile call, in call order
    putLog,         \* the PutObjectCommands sent, in order
    readLog,        \* the files whose arrayBuffer() was called, in order
    editLog,        \* the editor.replaceRange calls, in order
    notices,        \* the Notices shown, in order
    dropped,        \* event.dataTransfer.files of the drop event
    pasted,         \* event.clipboardData.items of the paste event
    eventCalls,     \* the methods called on the event: preventDefault, stopPropagation, ...
    nameCalls,      \* the generateUniqueFileName calls: name, clock reading, result
    target,         \* the editor processImages was given: "none", "activeView.editor", "event.editor"
    stored,         \* the data the host keeps for the plugin (loadData / saveData)
    life,           \* "constructed", "loading", "loaded", "failed", "unloaded"
    listeners,      \* the listeners registered on the document
    handlers,       \* this.dropHandler and this.dragoverHandler, 0 when undefined
    registrations,  \* what onload handed to addSettingTab and registerEvent, in order
    loads,          \* the number of onload calls made
    saves,          \* one record per saveSettings call, in call order
    tab,            \* the settings tab: its input fields and its saveTimeout
    promises,       \* the promises returned by onload and by handleDrop / handlePaste
    suspended       \* the gesture of the handler call that is not the one running

hostVars == <<stored, life, listeners, handlers, registrations, loads, saves, tab>>

vars == <<settings, now, year, activeView, activePath, line, cursor, pc, files,
          uploads, putLog, readLog, editLog, notices, dropped, pasted, eventCalls,
          nameCalls, target, hostVars, promises, suspended>>

----------------------------------------------------------------------------
(* Bounds *)

MaxFiles == 2
MaxClock == 10
MaxLoads == 2
MaxEdits == 2

----------------------------------------------------------------------------
(* Strings *)

RECURSIVE Str(_)
Str(t) == IF t = <<>> THEN "" ELSE Head(t) \o Str(Tail(t))

TextLen(t) == Len(Str(t))

StartsWith(s, p) == Len(p) <= Len(s) /\ SubSeq(s, 1, Len(p)) = p

EndsWith(s, p) == Len(p) <= Len(s) /\ SubSeq(s, Len(s) - Len(p) + 1, Len(s)) = p

\* 1-based index of the first occurrence of p in s, 0 when there is none
IndexOf(s, p) ==
    LET hits == {i \in 1..(Len(s) - Len(p) + 1) : SubSeq(s, i, i + Len(p) - 1) = p}
    IN  IF hits = {} THEN 0 ELSE CHOOSE i \in hits : \A j \in hits : i <= j

Includes(s, p) == IndexOf(s, p) # 0

\* String.prototype.replace with a string pattern: the first occurrence only
ReplaceFirst(s, p, r) ==
    LET i == IndexOf(s, p)
    IN  IF i = 0 THEN s
        ELSE SubSeq(s, 1, i - 1) \o r \o SubSeq(s, i + Len(p), Len(s))

\* s.split('.').at(-1)
LastSegment(s) ==
    LET dots == {i \in 1..Len(s) : s[i] = "."}
    IN  IF dots = {} THEN s
        ELSE LET d == CHOOSE i \in dots : \A j \in dots : j <= i
             IN  SubSeq(s, d + 1, Len(s))

RECURSIVE Join(_, _)
Join(list, sep) ==
    IF list = <<>> THEN <<>>
    ELSE IF Len(list) = 1 THEN list[1]
    ELSE list[1] \o sep \o Join(Tail(list), sep)

Digit(d) == <<"0", "1", "2", "3", "4", "5", "6", "7", "8", "9">>[d + 1]

\* `${n}` for a non-negative integer
RECURSIVE DecStr(_)
DecStr(n) == IF n < 10 THEN <<Digit(n)>> ELSE DecStr(n \div 10) \o <<Digit(n % 10)>>

HTTPS == <<"h", "t", "t", "p", "s", ":", "/", "/">>
HTTP == <<"h", "t", "t", "p", ":", "/", "/">>
IMAGE == <<"i", "m", "a", "g", "e", "/">>
FAILED_TO_FETCH == <<"F", "a", "i", "l", "e", "d", " ", "t", "o", " ", "f", "e", "t", "c", "h">>

----------------------------------------------------------------------------
(* src/r2-uploader.ts *)

\* generateFileKey appending the separator without looking at the prefix's end
generateFileKey_AlwaysSlash(pathPrefix, fileName, useYearSubdirectory, fullYear) ==
    LET normalizedPrefix == pathPrefix \o <<"/">>
        subdirectory == IF useYearSubdirectory THEN DecStr(fullYear) \o <<"/">> ELSE <<>>
    IN  normalizedPrefix \o subdirectory \o fileName

generateFileKey(pathPrefix, fileName, useYearSubdirectory, fullYear) ==
    LET normalizedPrefix == IF EndsWith(pathPrefix, <<"/">>) THEN pathPrefix
                            ELSE pathPrefix \o <<"/">>
        subdirectory == IF useYearSubdirectory THEN DecStr(fullYear) \o <<"/">> ELSE <<>>
    IN  normalizedPrefix \o subdirectory \o fileName

createUrl(s, key) ==
    LET baseUrl == IF s.customDomain # <<>> THEN s.customDomain
                   ELSE HTTPS \o s.bucketName \o <<".">> \o ReplaceFirst(s.endpoint, HTTPS, <<>>)
    IN  baseUrl \o <<"/">> \o key

\* validateSettingsErrors with the secretAccessKey test left out
validateSettingsErrors_NoSecret(s) ==
    (IF s.endpoint = <<>> THEN <<"endpoint">> ELSE <<>>)
    \o (IF s.accessKeyId = <<>> THEN <<"accessKeyId">> ELSE <<>>)
    \o (IF s.bucketName = <<>> THEN <<"bucketName">> ELSE <<>>)

validateSettingsErrors(s) ==
    (IF s.endpoint = <<>> THEN <<"endpoint">> ELSE <<>>)
    \o (IF s.accessKeyId = <<>> THEN <<"accessKeyId">> ELSE <<>>)
    \o (IF s.secretAccessKey = <<>> THEN <<"secretAccessKey">> ELSE <<>>)
    \o (IF s.bucketName = <<>> THEN <<"bucketName">> ELSE <<>>)

validateSettings(s) ==
    LET errors == validateSettingsErrors(s)
    IN  IF Len(errors) > 0
        THEN [success |-> FALSE,
              error |-> <<"Missing required settings: ">>
                        \o Join([i \in 1..Len(errors) |-> <<errors[i]>>], <<", ">>)]
        ELSE [success |-> TRUE, data |-> s]

\* `${error}`: String(error) of a thrown value
ErrorToString(e) ==
    IF e.kind = "string" THEN e.message
    ELSE IF e.message = <<>> THEN <<e.kind>>
    ELSE <<e.kind, ": ">> \o e.message

CORS_MESSAGE ==
    <<"Upload failed: ", "CORS error", ". Please add \"", "app://obsidian.md",
      "\" to AllowedOrigins in your R2 bucket CORS policy.">>

\* getErrorMessage without the instanceof TypeError test
getErrorMessage_AnyKind(e) ==
    IF Includes(e.message, FAILED_TO_FETCH)
    THEN CORS_MESSAGE
    ELSE <<"Upload failed: ">> \o ErrorToString(e)

getErrorMessage(e) ==
    IF e.kind = "TypeError" /\ Includes(e.message, FAILED_TO_FETCH)
    THEN CORS_MESSAGE
    ELSE <<"Upload failed: ">> \o ErrorToString(e)

\* generateUniqueFileName keeping the whole original name after the timestamp
generateUniqueFileName_KeepName(originalName, timestamp) ==
    DecStr(timestamp) \o <<".">> \o originalName

generateUniqueFileName(originalName, timestamp) ==
    DecStr(timestamp) \o <<".">> \o LastSegment(originalName)

NoCause == [kind |-> "none", message |-> <<>>]

\* uploadFile up to its first await: validateSettings, then file.arrayBuffer().
\* A call record holds the arguments, the position in uploadFile (pc), the key
\* once generated, the value caught (cause) and where (failedAt), and the result.
uploadFileStart(s, file, fileName) ==
    LET settingsResult == validateSettings(s)
    IN  IF settingsResult.success = FALSE
        THEN [settings |-> s, file |-> file, fileName |-> fileName, pc |-> "done",
              key |-> <<>>, cause |-> NoCause, failedAt |-> "settings",
              result |-> [success |-> FALSE, error |-> settingsResult.error]]
        ELSE [settings |-> s, file |-> file, fileName |-> fileName, pc |-> "reading",
              key |-> <<>>, cause |-> NoCause, failedAt |-> "none",
              result |-> [success |-> FALSE, error |-> <<>>]]

\* the files of the calls in us whose arrayBuffer() is called, in call order
ReadsStarted(us) ==
    LET Reading(u) == u.pc = "reading"
        started == SelectSeq(us, Reading)
    IN  [i \in 1..Len(started) |-> started[i].file]

createS3Client(s) ==
    [endpoint |-> s.endpoint, region |-> s.region,
     credentials |-> [accessKeyId |-> s.accessKeyId, secretAccessKey |-> s.secretAccessKey]]

\* ReadResolve reading the plugin's current settings instead of the settings
\* the call was given
ReadResolve_CurrentSettings(i) ==
    /\ i \in DOMAIN uploads
    /\ uploads[i].pc = "reading"
    /\ LET u == uploads[i]
           key == generateFileKey(settings.pathPrefix, u.fileName,
                                  settings.useYearSubdirectory, year)
       IN  /\ uploads' = [uploads EXCEPT ![i].pc = "sending", ![i].key = key]
           /\ putLog' = Append(putLog, [client |-> createS3Client(settings),
                                        Bucket |-> settings.bucketName, Key |-> key,
                                        Body |-> u.file.content,
                                        ContentType |-> u.file.type])
    /\ UNCHANGED <<settings, now, year, activeView, activePath, line, cursor, pc, files,
                   readLog, editLog, notices, dropped, pasted, eventCalls, nameCalls, target,
                   hostVars, promises, suspended>>

\* fileToFileInfo succeeded: the client is created from the settings of the
\* call, the key is generated and the PUT is sent
ReadResolve(i) ==
    /\ i \in DOMAIN uploads
    /\ uploads[i].pc = "reading"
    /\ LET u == uploads[i]
           key == generateFileKey(u.settings.pathPrefix, u.fileName,
                                  u.settings.useYearSubdirectory, year)
       IN  /\ uploads' = [uploads EXCEPT ![i].pc = "sending", ![i].key = key]
           /\ putLog' = Append(putLog, [client |-> createS3Client(u.settings),
                                        Bucket |-> u.settings.bucketName, Key |-> key,
                                        Body |-> u.file.content,
                                        ContentType |-> u.file.type])
    /\ UNCHANGED <<settings, now, year, activeView, activePath, line, cursor, pc, files,
                   readLog, editLog, notices, dropped, pasted, eventCalls, nameCalls, target,
                   hostVars, promises, suspended>>

\* ReadReject reporting the rejection as getErrorMessage reports a failed PUT
ReadReject_AsUploadFailure(i, e) ==
    /\ i \in DOMAIN uploads
    /\ uploads[i].pc = "reading"
    /\ uploads' = [uploads EXCEPT
                     ![i].pc = "done", ![i].cause = e, ![i].failedAt = "read",
                     ![i].result = [success |-> FALSE,
                                    error |-> <<"Upload failed: ">> \o ErrorToString(e)]]
    /\ UNCHANGED <<settings, now, year, activeView, activePath, line, cursor, pc, files,
                   putLog, readLog, editLog, notices, dropped, pasted, eventCalls, nameCalls,
                   target, hostVars, promises, suspended>>

\* file.arrayBuffer() rejected with e
ReadReject(i, e) ==
    /\ i \in DOMAIN uploads
    /\ uploads[i].pc = "reading"
    /\ uploads' = [uploads EXCEPT
                     ![i].pc = "done", ![i].cause = e, ![i].failedAt = "read",
                     ![i].result = [success |-> FALSE,
                                    error |-> <<"Failed to read file: ">> \o ErrorToString(e)]]
    /\ UNCHANGED <<settings, now, year, activeView, activePath, line, cursor, pc, files,
                   putLog, readLog, editLog, notices, dropped, pasted, eventCalls, nameCalls, target,
                   hostVars, promises, suspended>>

\* client.send(command) resolved
PutResolve(i) ==
    /\ i \in DOMAIN uploads
    /\ uploads[i].pc = "sending"
    /\ LET u == uploads[i]
       IN  uploads' = [uploads EXCEPT
                         ![i].pc = "done",
                         ![i].result = [success |-> TRUE,
                                        data |-> [url |-> createUrl(u.settings, u.key),
                                                  fileName |-> u.fileName,
                                                  timestamp |-> now]]]
    /\ UNCHANGED <<settings, now, year, activeView, activePath, line, cursor, pc, files,
                   putLog, readLog, editLog, notices, dropped, pasted, eventCalls, nameCalls, target,
                   hostVars, promises, suspended>>

\* PutReject sending the command a second time after the first rejection
PutReject_Retry(i, e) ==
    /\ i \in DOMAIN uploads
    /\ uploads[i].pc = "sending"
    /\ IF Len(putLog) < 2 * Len(uploads)
       THEN /\ putLog' = Append(putLog, putLog[Len(putLog)])
            /\ UNCHANGED uploads
       ELSE /\ uploads' = [uploads EXCEPT
                             ![i].pc = "done", ![i].cause = e, ![i].failedAt = "put",
                             ![i].result = [success |-> FALSE, error |-> getErrorMessage(e)]]
            /\ UNCHANGED putLog
    /\ UNCHANGED <<settings, now, year, activeView, activePath, line, cursor, pc, files,
                   readLog, editLog, notices, dropped, pasted, eventCalls, nameCalls,
                   target, hostVars, promises, suspended>>

\* client.send(command) rejected with e
PutReject(i, e) ==
    /\ i \in DOMAIN uploads
    /\ uploads[i].pc = "sending"
    /\ uploads' = [uploads EXCEPT
                     ![i].pc = "done", ![i].cause = e, ![i].failedAt = "put",
                     ![i].result = [success |-> FALSE, error |-> getErrorMessage(e)]]
    /\ UNCHANGED <<settings, now, year, activeView, activePath, line, cursor, pc, files,
                   putLog, readLog, editLog, notices, dropped, pasted, eventCalls, nameCalls, target,
                   hostVars, promises, suspended>>

\* a direct call of uploadFile(settings, file, fileName)
CallUploadFile(file, fileName) ==
    /\ pc = "idle"
    /\ pc' = "called"
    /\ files' = <<file>>
    /\ uploads' = <<uploadFileStart(settings, file, fileName)>>
    /\ readLog' = readLog \o ReadsStarted(uploads')
    /\ UNCHANGED <<settings, now, year, activeView, activePath, line, cursor,
                   putLog, editLog, notices, dropped, pasted, eventCalls, nameCalls, target,
                   hostVars, promises, suspended>>

\* the clock advances
Tick ==
    /\ pc \in {"uploading", "called", "naming"}
    /\ now < MaxClock
    /\ now' = now + 1
    /\ UNCHANGED <<settings, year, activeView, activePath, line, cursor, pc, files,
                   uploads, putLog, readLog, editLog, notices, dropped, pasted, eventCalls, nameCalls, target,
                   hostVars, promises, suspended>>

----------------------------------------------------------------------------
(* the plugin's main module, src/unnamed/part_001 lines 478-725 *)

DefaultNoticeTimeout == 4000

\* the states of a promise: not created, pending, fulfilled, rejected with e
NoPromise == [state |-> "none", reason |-> NoCause]
Pending == [state |-> "pending", reason |-> NoCause]
Fulfilled == [state |-> "fulfilled", reason |-> NoCause]
Rejected(e) == [state |-> "rejected", reason |-> e]

\* no onload and no handler called yet, no exception raised in a handler
NoPromises == [onload |-> NoPromise, handler |-> NoPromise, thrown |-> <<>>]

\* isInEnabledFolder comparing the bare prefix, without the '/' after the folder
isInEnabledFolder_BarePrefix(filePath, enabledFolders) ==
    IF filePath = <<>> THEN FALSE
    ELSE IF Len(enabledFolders) = 0 THEN TRUE
    ELSE \E k \in DOMAIN enabledFolders : StartsWith(filePath, enabledFolders[k])

isInEnabledFolder(filePath, enabledFolders) ==
    IF filePath = <<>> THEN FALSE
    ELSE IF Len(enabledFolders) = 0 THEN TRUE
    ELSE \E k \in DOMAIN enabledFolders :
            \/ StartsWith(filePath, enabledFolders[k] \o <<"/">>)
            \/ filePath = enabledFolders[k]

showNotice(message, timeout) == [message |-> message, timeout |-> timeout]

\* the characters sanitize-filename replaces (its illegalRe)
IllegalChars == {"/", "?", "<", ">", "\\", ":", "*", "|", "\""}

\* sanitize(name, { replacement: '_' }) on the characters of a file name
sanitize(name) == [i \in 1..Len(name) |-> IF name[i] \in IllegalChars THEN "_" ELSE name[i]]

markdownLinkText(link) == <<"!", "[">> \o link.displayName \o <<"]", "(">> \o link.url \o <<")">>

\* editor.replaceRange(text, {line, ch}) on the cursor line
replaceRange(ln, text, ch) ==
    LET c == IF ch > Len(ln) THEN Len(ln) ELSE ch
    IN  SubSeq(ln, 1, c) \o text \o SubSeq(ln, c + 1, Len(ln))

\* insertMarkdownLinks leaving insertPosition at the cursor for every link
RECURSIVE insertMarkdownLinks_NoAdvance(_, _, _)
insertMarkdownLinks_NoAdvance(ln, links, ch) ==
    IF links = <<>> THEN ln
    ELSE insertMarkdownLinks_NoAdvance(replaceRange(ln, markdownLinkText(Head(links)), ch),
                                       Tail(links), ch)

\* insertMarkdownLinks: the line after the forEach, starting at insertPosition.ch = ch
RECURSIVE insertMarkdownLinks(_, _, _)
insertMarkdownLinks(ln, links, ch) ==
    IF links = <<>> THEN ln
    ELSE LET markdownLink == markdownLinkText(Head(links))
         IN  insertMarkdownLinks(replaceRange(ln, markdownLink, ch), Tail(links),
                                 ch + TextLen(markdownLink))

\* insertMarkdownLinks: the replaceRange calls it makes, in order
RECURSIVE insertMarkdownCalls(_, _)
insertMarkdownCalls(links, ch) ==
    IF links = <<>> THEN <<>>
    ELSE LET markdownLink == markdownLinkText(Head(links))
         IN  <<[text |-> markdownLink, ch |-> ch]>>
             \o insertMarkdownCalls(Tail(links), ch + TextLen(markdownLink))

\* showProcessResults showing a notice for the succeeded files only
showProcessResults_SuccessOnly(processResults) ==
    LET Succeeded(r) == r.result.success
        succeeded == SelectSeq(processResults, Succeeded)
    IN  [i \in 1..Len(succeeded) |->
            showNotice(<<"Successfully uploaded ">> \o sanitize(succeeded[i].originalName),
                       2000)]

showProcessResults(processResults) ==
    [i \in 1..Len(processResults) |->
        LET safeName == sanitize(processResults[i].originalName)
            result == processResults[i].result
        IN  IF result.success = TRUE
            THEN showNotice(<<"Successfully uploaded ">> \o safeName, 2000)
            ELSE showNotice(<<"Failed to upload ">> \o safeName \o <<": ">> \o result.error, 0)]

\* processImages: the processResults built from the settled results
processResultsOf(fs, us) ==
    [i \in 1..Len(us) |-> [originalName |-> fs[i].name, result |-> us[i].result]]

\* processImages: the links handed to insertMarkdownLinks
markdownLinksOf(processResults) ==
    LET Succeeded(r) == r.result.success
        succeeded == SelectSeq(processResults, Succeeded)
    IN  [i \in 1..Len(succeeded) |->
            [displayName |-> sanitize(succeeded[i].originalName),
             url |-> IF succeeded[i].result.success THEN succeeded[i].result.data.url
                     ELSE <<>>]]

\* extractDropFiles testing the type against 'image' without the '/'
extractDropFiles_NoSlash(eventFiles) ==
    LET IsImage(file) == StartsWith(file.type, <<"i", "m", "a", "g", "e">>)
    IN  SelectSeq(eventFiles, IsImage)

extractDropFiles(eventFiles) ==
    LET IsImage(file) == StartsWith(file.type, IMAGE)
    IN  SelectSeq(eventFiles, IsImage)

\* hasRequiredSettings without the bucketName test
hasRequiredSettings_NoBucket(s) ==
    /\ s.endpoint # <<>>
    /\ s.accessKeyId # <<>>
    /\ s.secretAccessKey # <<>>

hasRequiredSettings(s) ==
    /\ s.endpoint # <<>>
    /\ s.accessKeyId # <<>>
    /\ s.secretAccessKey # <<>>
    /\ s.bucketName # <<>>

\* validateConditions testing the required settings before the folder
validateConditions_SettingsFirst(filePath, s) ==
    IF ~hasRequiredSettings(s)
    THEN [ok |-> FALSE,
          shown |-> <<showNotice(
              <<"R2 uploader settings are incomplete. Please check the plugin settings.">>,
              DefaultNoticeTimeout)>>]
    ELSE IF Len(s.enabledFolders) > 0 /\ ~isInEnabledFolder(filePath, s.enabledFolders)
    THEN [ok |-> FALSE,
          shown |-> <<showNotice(<<"Current folder is not enabled for uploads">>,
                                 DefaultNoticeTimeout)>>]
    ELSE [ok |-> TRUE, shown |-> <<>>]

\* validateConditions: its return value and the notices it shows
validateConditions(filePath, s) ==
    IF Len(s.enabledFolders) > 0 /\ ~isInEnabledFolder(filePath, s.enabledFolders)
    THEN [ok |-> FALSE,
          shown |-> <<showNotice(<<"Current folder is not enabled for uploads">>,
                                 DefaultNoticeTimeout)>>]
    ELSE IF ~hasRequiredSettings(s)
    THEN [ok |-> FALSE,
          shown |-> <<showNotice(
              <<"R2 uploader settings are incomplete. Please check the plugin settings.">>,
              DefaultNoticeTimeout)>>]
    ELSE [ok |-> TRUE, shown |-> <<>>]

\* processFiles: files.map(file => uploadFile(settings, file, generateUniqueFileName(file.name)))
\* with Date.now() reading ts[i] at the i-th call
processFiles(fs, s, ts) ==
    [i \in 1..Len(fs) |-> uploadFileStart(s, fs[i], generateUniqueFileName(fs[i].name, ts[i]))]

NonDecreasing(ts) == \A i, j \in DOMAIN ts : i <= j => ts[i] <= ts[j]

\* processImages up to the await of Promise.all: processFiles has made its calls
StartProcessImages(imageFiles, ts) ==
    /\ DOMAIN ts = DOMAIN imageFiles
    /\ NonDecreasing(ts)
    /\ \A i \in DOMAIN ts : now <= ts[i]
    /\ files' = imageFiles
    /\ uploads' = processFiles(imageFiles, settings, ts)
    /\ nameCalls' = nameCalls \o [i \in 1..Len(ts) |->
                                    [originalName |-> imageFiles[i].name, at |-> ts[i],
                                     result |-> generateUniqueFileName(
                                                    imageFiles[i].name, ts[i])]]
    /\ readLog' = readLog \o ReadsStarted(uploads')
    /\ now' = ts[Len(ts)]
    /\ pc' = "uploading"
    /\ UNCHANGED notices

\* handleDrop up to the await of Promise.all in processImages
HandleDrop(eventFiles, ts) ==
    /\ pc = "idle"
    /\ dropped' = eventFiles
    /\ LET conditions == validateConditions(activePath, settings)
           imageFiles == extractDropFiles(eventFiles)
       IN  IF ~activeView
           THEN /\ pc' = "done"
                /\ promises' = [promises EXCEPT !.handler = Fulfilled]
                /\ UNCHANGED <<now, files, uploads, readLog, notices, eventCalls, nameCalls,
                           target>>
           ELSE IF ~conditions.ok
           THEN /\ pc' = "done"
                /\ promises' = [promises EXCEPT !.handler = Fulfilled]
                /\ notices' = notices \o conditions.shown
                /\ UNCHANGED <<now, files, uploads, readLog, eventCalls, nameCalls,
                           target>>
           ELSE IF Len(imageFiles) = 0
           THEN /\ pc' = "done"
                /\ promises' = [promises EXCEPT !.handler = Fulfilled]
                /\ UNCHANGED <<now, files, uploads, readLog, notices, eventCalls, nameCalls,
                           target>>
           ELSE /\ eventCalls' = {"preventDefault", "stopPropagation",
                                  "stopImmediatePropagation"}
                /\ target' = "activeView.editor"
                /\ StartProcessImages(imageFiles, ts)
                /\ promises' = [promises EXCEPT !.handler = Pending]
    /\ UNCHANGED <<settings, year, activeView, activePath, line, cursor, putLog, editLog,
                   pasted, hostVars, suspended>>

NoFile == [name |-> <<>>, type |-> <<>>, content |-> "null"]

\* extractPasteFiles without the filter on the null getAsFile() results
extractPasteFiles_KeepNull(items) ==
    LET IsImageFile(item) == item.kind = "file" /\ StartsWith(item.type, IMAGE)
        imageItems == SelectSeq(items, IsImageFile)
    IN  [i \in 1..Len(imageItems) |-> imageItems[i].file]

extractPasteFiles(items) ==
    LET IsImageFile(item) == item.kind = "file" /\ StartsWith(item.type, IMAGE)
        NotNull(file) == file # NoFile
        imageItems == SelectSeq(items, IsImageFile)
    IN  SelectSeq([i \in 1..Len(imageItems) |-> imageItems[i].file], NotNull)

\* handlePaste up to the await of Promise.all in processImages
HandlePaste(items, ts) ==
    /\ pc = "idle"
    /\ pasted' = items
    /\ LET conditions == validateConditions(activePath, settings)
           imageFiles == extractPasteFiles(items)
       IN  IF ~activeView
           THEN /\ pc' = "done"
                /\ promises' = [promises EXCEPT !.handler = Fulfilled]
                /\ UNCHANGED <<now, files, uploads, readLog, notices, eventCalls, nameCalls,
                           target>>
           ELSE IF ~conditions.ok
           THEN /\ pc' = "done"
                /\ promises' = [promises EXCEPT !.handler = Fulfilled]
                /\ notices' = notices \o conditions.shown
                /\ UNCHANGED <<now, files, uploads, readLog, eventCalls, nameCalls,
                           target>>
           ELSE IF Len(imageFiles) = 0
           THEN /\ pc' = "done"
                /\ promises' = [promises EXCEPT !.handler = Fulfilled]
                /\ UNCHANGED <<now, files, uploads, readLog, notices, eventCalls, nameCalls,
                           target>>
           ELSE /\ eventCalls' = {"preventDefault"}
                /\ target' = "event.editor"
                /\ StartProcessImages(imageFiles, ts)
                /\ promises' = [promises EXCEPT !.handler = Pending]
    /\ UNCHANGED <<settings, year, activeView, activePath, line, cursor, putLog, editLog,
                   dropped, hostVars, suspended>>

\* A second handler call can be in flight: pc, files, uploads, dropped, pasted,
\* eventCalls, target and promises.handler are the state of the call whose steps
\* run; suspended holds the same for the other call.  NoGesture is a call not
\* made yet.
NoGesture ==
    [pc |-> "idle", files |-> <<>>, uploads |-> <<>>, dropped |-> <<>>, pasted |-> <<>>,
     eventCalls |-> {}, target |-> "none", handler |-> NoPromise]

\* the state of the call whose steps run, as a record
Running ==
    [pc |-> pc, files |-> files, uploads |-> uploads, dropped |-> dropped,
     pasted |-> pasted, eventCalls |-> eventCalls, target |-> target,
     handler |-> promises.handler]

\* the event loop turns to the other handler call: at an await of the running
\* call, or after its return, the next step is one of the other call
Switch ==
    /\ pc # "idle"
    /\ suspended' = Running
    /\ pc' = suspended.pc
    /\ files' = suspended.files
    /\ uploads' = suspended.uploads
    /\ dropped' = suspended.dropped
    /\ pasted' = suspended.pasted
    /\ eventCalls' = suspended.eventCalls
    /\ target' = suspended.target
    /\ promises' = [promises EXCEPT !.handler = suspended.handler]
    /\ UNCHANGED <<settings, now, year, activeView, activePath, line, cursor, putLog,
                   readLog, editLog, notices, nameCalls, hostVars>>

\* the links of gesture g, a record like Running
LinksOf(g) == markdownLinksOf(processResultsOf(g.files, g.uploads))

\* the text insertMarkdownLinks inserts for links: the link texts in order
RECURSIVE LinksText(_)
LinksText(links) ==
    IF links = <<>> THEN <<>> ELSE markdownLinkText(Head(links)) \o LinksText(Tail(links))

\* processImages inserting one link per step and awaiting between the links:
\* uploads[i].pc = "inserted" marks the files whose link is in the document
ProcessImagesJoin_PerLink ==
    /\ pc = "uploading"
    /\ \A i \in DOMAIN uploads : uploads[i].pc \in {"done", "inserted"}
    /\ LET processResults == processResultsOf(files, uploads)
           waiting == {i \in DOMAIN uploads :
                          uploads[i].pc = "done" /\ uploads[i].result.success}
           Inserted(u) == u.pc = "inserted"
           before == markdownLinksOf(processResultsOf(files, SelectSeq(uploads, Inserted)))
       IN  IF waiting = {}
           THEN /\ notices' = notices \o showProcessResults(processResults)
                /\ pc' = "done"
                /\ promises' = [promises EXCEPT !.handler = Fulfilled]
                /\ UNCHANGED <<line, editLog, uploads>>
           ELSE LET i == CHOOSE j \in waiting : \A k \in waiting : j <= k
                    link == <<[displayName |-> sanitize(files[i].name),
                               url |-> uploads[i].result.data.url]>>
                    ch == cursor + TextLen(LinksText(before))
                IN  /\ line' = insertMarkdownLinks(line, link, ch)
                    /\ editLog' = editLog \o insertMarkdownCalls(link, ch)
                    /\ uploads' = [uploads EXCEPT ![i].pc = "inserted"]
                    /\ UNCHANGED <<notices, pc, promises>>
    /\ UNCHANGED <<settings, now, year, activeView, activePath, cursor, files,
                   putLog, readLog, dropped, pasted, eventCalls, nameCalls, target,
                   hostVars, suspended>>

\* processImages with a Promise.all that rejects when a file failed: handleDrop's
\* catch shows 'Plugin error' and nothing is inserted
ProcessImagesJoin_AbortOnFailure ==
    /\ pc = "uploading"
    /\ \A i \in DOMAIN uploads : uploads[i].pc = "done"
    /\ LET processResults == processResultsOf(files, uploads)
           links == markdownLinksOf(processResults)
       IN  IF \E i \in DOMAIN uploads : ~uploads[i].result.success
           THEN /\ notices' = Append(notices, showNotice(<<"Plugin error: ">>,
                                                         DefaultNoticeTimeout))
                /\ UNCHANGED <<line, editLog>>
           ELSE /\ line' = insertMarkdownLinks(line, links, cursor)
                /\ editLog' = editLog \o insertMarkdownCalls(links, cursor)
                /\ notices' = notices \o showProcessResults(processResults)
    /\ pc' = "done"
    /\ promises' = [promises EXCEPT !.handler = Fulfilled]
    /\ UNCHANGED <<settings, now, year, activeView, activePath, cursor, files, uploads,
                   putLog, readLog, dropped, pasted, eventCalls, nameCalls, target,
                   hostVars, suspended>>

\* processImages going on as soon as one upload has returned, like Promise.race
ProcessImagesJoin_FirstDone ==
    /\ pc = "uploading"
    /\ \E i \in DOMAIN uploads : uploads[i].pc = "done"
    /\ LET processResults == processResultsOf(files, uploads)
           links == markdownLinksOf(processResults)
       IN  /\ line' = insertMarkdownLinks(line, links, cursor)
           /\ editLog' = editLog \o insertMarkdownCalls(links, cursor)
           /\ notices' = notices \o showProcessResults(processResults)
    /\ pc' = "done"
    /\ promises' = [promises EXCEPT !.handler = Fulfilled]
    /\ UNCHANGED <<settings, now, year, activeView, activePath, cursor, files, uploads,
                   putLog, readLog, dropped, pasted, eventCalls, nameCalls, target,
                   hostVars, suspended>>

\* processImages after Promise.all has resolved: insertion, then the result notices
ProcessImagesJoin ==
    /\ pc = "uploading"
    /\ \A i \in DOMAIN uploads : uploads[i].pc = "done"
    /\ LET processResults == processResultsOf(files, uploads)
           links == markdownLinksOf(processResults)
       IN  /\ line' = insertMarkdownLinks(line, links, cursor)
           /\ editLog' = editLog \o insertMarkdownCalls(links, cursor)
           /\ notices' = notices \o showProcessResults(processResults)
    /\ pc' = "done"
    /\ promises' = [promises EXCEPT !.handler = Fulfilled]
    /\ UNCHANGED <<settings, now, year, activeView, activePath, cursor, files, uploads,
                   putLog, readLog, dropped, pasted, eventCalls, nameCalls, target,
                   hostVars, suspended>>


\* ProcessImagesJoinThrows without the catch of the handler: its promise rejects
ProcessImagesJoinThrows_Uncaught(k, e) ==
    /\ pc = "uploading"
    /\ \A i \in DOMAIN uploads : uploads[i].pc = "done"
    /\ LET processResults == processResultsOf(files, uploads)
           links == markdownLinksOf(processResults)
           inserted == SubSeq(links, 1, k - 1)
       IN  /\ k \in 0..Len(links)
           /\ line' = insertMarkdownLinks(line, inserted, cursor)
           /\ editLog' = editLog \o insertMarkdownCalls(inserted, cursor)
    /\ pc' = "done"
    /\ promises' = [promises EXCEPT !.handler = Rejected(e), !.thrown = Append(@, e)]
    /\ UNCHANGED <<settings, now, year, activeView, activePath, cursor, files, uploads,
                   putLog, readLog, notices, dropped, pasted, eventCalls, nameCalls, target,
                   hostVars, suspended>>

\* processImages after Promise.all has resolved, the editor throwing e from
\* getCursor (k = 0) or from the k-th replaceRange: the links before the k-th
\* are inserted, showProcessResults is not reached, and the catch of handleDrop
\* / handlePaste shows 'Plugin error'
ProcessImagesJoinThrows(k, e) ==
    /\ pc = "uploading"
    /\ \A i \in DOMAIN uploads : uploads[i].pc = "done"
    /\ LET processResults == processResultsOf(files, uploads)
           links == markdownLinksOf(processResults)
           inserted == SubSeq(links, 1, k - 1)
       IN  /\ k \in 0..Len(links)
           /\ line' = insertMarkdownLinks(line, inserted, cursor)
           /\ editLog' = editLog \o insertMarkdownCalls(inserted, cursor)
    /\ notices' = Append(notices, showNotice(<<"Plugin error: ">> \o ErrorToString(e),
                                             DefaultNoticeTimeout))
    /\ pc' = "done"
    /\ promises' = [promises EXCEPT !.handler = Fulfilled, !.thrown = Append(@, e)]
    /\ UNCHANGED <<settings, now, year, activeView, activePath, cursor, files, uploads,
                   putLog, readLog, dropped, pasted, eventCalls, nameCalls, target,
                   hostVars, suspended>>

\* a direct call of generateUniqueFileName(originalName), Date.now() reading now
CallGenerateUniqueFileName(originalName) ==
    /\ pc = "naming"
    /\ Len(nameCalls) < MaxFiles
    /\ nameCalls' = Append(nameCalls, [originalName |-> originalName, at |-> now,
                                       result |-> generateUniqueFileName(originalName, now)])
    /\ UNCHANGED <<settings, now, year, activeView, activePath, line, cursor, pc, files,
                   uploads, putLog, readLog, editLog, notices, dropped, pasted, eventCalls,
                   target, hostVars, promises, suspended>>

----------------------------------------------------------------------------
(* the plugin class, src/unnamed/part_001 lines 676-725, and src/types.ts *)

DEFAULT_SETTINGS ==
    [endpoint |-> <<>>, accessKeyId |-> <<>>, secretAccessKey |-> <<>>,
     bucketName |-> <<>>, region |-> <<"a", "u", "t", "o">>, customDomain |-> <<>>,
     pathPrefix |-> <<"i", "m", "a", "g", "e", "s", "/">>, useYearSubdirectory |-> TRUE,
     enabledFolders |-> <<>>]

\* what loadData() resolves with: null, or an object with some of the fields
NullData == [kind |-> "null", fields |-> <<>>]
ObjectData(fields) == [kind |-> "object", fields |-> fields]

\* { ...a, ...b }: the properties of b over those of a
ObjectSpread(a, b) ==
    [f \in (DOMAIN a) \cup (DOMAIN b) |-> IF f \in DOMAIN b THEN b[f] ELSE a[f]]

\* loadSettings keeping the default of every field, whatever is stored
loadSettings_DefaultsWin(loadedData) ==
    ObjectSpread(loadedData.fields, DEFAULT_SETTINGS)

\* loadSettings: the settings after `{ ...DEFAULT_SETTINGS, ...loadedData }`;
\* spreading null adds no property
loadSettings(loadedData) ==
    ObjectSpread(DEFAULT_SETTINGS, loadedData.fields)

\* the listener an addEventListener(type, handler, { capture }) call registers
Listener(type, handler, capture) == [type |-> type, handler |-> handler, capture |-> capture]

\* onload registering the settings tab, the listeners and the paste handler
\* before it awaits loadSettings
OnloadStart_RegisterFirst ==
    /\ life \in {"constructed", "unloaded"}
    /\ loads < MaxLoads
    /\ loads' = loads + 1
    /\ life' = "loading"
    /\ promises' = [promises EXCEPT !.onload = Pending]
    /\ handlers' = loads'
    /\ listeners' = listeners \cup {Listener("drop", <<"dropHandler", loads'>>, TRUE),
                                    Listener("dragover", <<"dragoverHandler", loads'>>, TRUE)}
    /\ registrations' = registrations \o <<"addSettingTab", "editor-paste">>
    /\ UNCHANGED <<settings, now, year, activeView, activePath, line, cursor, pc, files,
                   uploads, putLog, readLog, editLog, notices, dropped, pasted, eventCalls,
                   nameCalls, target, stored, saves, tab, suspended>>

\* onload up to the await of loadData()
OnloadStart ==
    /\ life \in {"constructed", "unloaded"}
    /\ loads < MaxLoads
    /\ loads' = loads + 1
    /\ life' = "loading"
    /\ promises' = [promises EXCEPT !.onload = Pending]
    /\ UNCHANGED <<settings, now, year, activeView, activePath, line, cursor, pc, files,
                   uploads, putLog, readLog, editLog, notices, dropped, pasted, eventCalls,
                   nameCalls, target, stored, listeners, handlers, registrations, saves,
                   tab, suspended>>

\* loadData() resolved: the rest of onload.  The handlers are new closures at
\* every onload; the number of the onload call identifies them.
LoadDataResolve ==
    /\ life = "loading"
    /\ settings' = loadSettings(stored)
    /\ handlers' = loads
    /\ listeners' = listeners \cup {Listener("drop", <<"dropHandler", loads>>, TRUE),
                                    Listener("dragover", <<"dragoverHandler", loads>>, TRUE)}
    /\ registrations' = registrations \o <<"addSettingTab", "editor-paste">>
    /\ life' = "loaded"
    /\ promises' = [promises EXCEPT !.onload = Fulfilled]
    /\ UNCHANGED <<now, year, activeView, activePath, line, cursor, pc, files,
                   uploads, putLog, readLog, editLog, notices, dropped, pasted, eventCalls,
                   nameCalls, target, stored, loads, saves, tab, suspended>>

\* loadData() rejected with e: loadSettings and onload reject with e before
\* anything is registered
LoadDataReject(e) ==
    /\ life = "loading"
    /\ life' = "failed"
    /\ promises' = [promises EXCEPT !.onload = Rejected(e)]
    /\ UNCHANGED <<settings, now, year, activeView, activePath, line, cursor, pc, files,
                   uploads, putLog, readLog, editLog, notices, dropped, pasted, eventCalls,
                   nameCalls, target, stored, listeners, handlers, registrations, loads,
                   saves, tab, suspended>>

\* onunload calling removeEventListener without the capture option
Onunload_NoCapture ==
    /\ life \in {"constructed", "loaded", "failed", "unloaded"}
    /\ listeners' = IF handlers # 0
                    THEN listeners \ {Listener("drop", <<"dropHandler", handlers>>, FALSE),
                                      Listener("dragover", <<"dragoverHandler", handlers>>,
                                               FALSE)}
                    ELSE listeners
    /\ life' = "unloaded"
    /\ UNCHANGED <<settings, now, year, activeView, activePath, line, cursor, pc, files,
                   uploads, putLog, readLog, editLog, notices, dropped, pasted, eventCalls,
                   nameCalls, target, stored, handlers, registrations, loads, saves, tab, promises, suspended>>

\* onunload: removeEventListener with the stored handlers and { capture: true }
Onunload ==
    /\ life \in {"constructed", "loaded", "failed", "unloaded"}
    /\ listeners' = IF handlers # 0
                    THEN listeners \ {Listener("drop", <<"dropHandler", handlers>>, TRUE),
                                      Listener("dragover", <<"dragoverHandler", handlers>>,
                                               TRUE)}
                    ELSE listeners
    /\ life' = "unloaded"
    /\ UNCHANGED <<settings, now, year, activeView, activePath, line, cursor, pc, files,
                   uploads, putLog, readLog, editLog, notices, dropped, pasted, eventCalls,
                   nameCalls, target, stored, handlers, registrations, loads, saves, tab, promises, suspended>>

\* saveSettings(newSettings) up to the await of saveData, handing over the
\* settings of before the call
saveSettingsCall_OldData(newSettings, from) ==
    /\ settings' = newSettings
    /\ saves' = Append(saves, [arg |-> newSettings, data |-> settings, pc |-> "saving",
                               error |-> NoCause, promise |-> "pending",
                               reason |-> NoCause, from |-> from])

\* saveSettings(newSettings) up to the await of saveData: this.settings is
\* assigned, then saveData(this.settings) is called.  from is "direct" or "ui".
\* A call record holds the argument, the data handed to saveData, the state of
\* the saveData call (pc) with the error it rejected with, and the state of the
\* promise saveSettings returned with the reason it rejected with.
saveSettingsCall(newSettings, from) ==
    /\ settings' = newSettings
    /\ saves' = Append(saves, [arg |-> newSettings, data |-> settings', pc |-> "saving",
                               error |-> NoCause, promise |-> "pending",
                               reason |-> NoCause, from |-> from])


\* a call of the plugin's saveSettings(newSettings) from outside the settings tab
SaveSettings(newSettings) ==
    /\ Len(saves) < MaxEdits
    /\ saveSettingsCall(newSettings, "direct")
    /\ UNCHANGED <<now, year, activeView, activePath, line, cursor, pc, files,
                   uploads, putLog, readLog, editLog, notices, dropped, pasted, eventCalls,
                   nameCalls, target, stored, life, listeners, handlers, registrations,
                   loads, tab, promises, suspended>>

\* renderSettings: the container is emptied and the controls are built from
\* getCurrentSettings(); the Add and Remove buttons close over the
\* enabledFolders of that moment
renderSettings ==
    [tab EXCEPT !.rendered = settings.enabledFolders, !.renders = tab.renders + 1]

\* refreshDisplay: renderSettings if display() has set the container
refreshDisplay == IF tab.displayContainer THEN renderSettings ELSE tab

\* saveData(data) resolved: the host has stored the data.  The host completes
\* the writes in the order of the calls.  The handler of an Add or Remove
\* button that awaited the save goes on with refreshDisplay().
SaveDataResolve(i) ==
    /\ i \in DOMAIN saves
    /\ saves[i].pc = "saving"
    /\ \A j \in 1..(i - 1) : saves[j].pc # "saving"
    /\ saves' = [saves EXCEPT ![i].pc = "resolved", ![i].promise = "fulfilled"]
    /\ stored' = ObjectData(saves[i].data)
    /\ tab' = IF saves[i].from = "button" THEN refreshDisplay ELSE tab
    /\ UNCHANGED <<settings, now, year, activeView, activePath, line, cursor, pc, files,
                   uploads, putLog, readLog, editLog, notices, dropped, pasted, eventCalls,
                   nameCalls, target, life, listeners, handlers, registrations, loads,
                   promises, suspended>>

\* saveData(data) rejected with e: saveSettings rejects with e; the catch of
\* saveSettingsImmediate (src/unnamed/part_002 lines 44-48) shows a notice and
\* returns normally, so the handler of a button goes on with refreshDisplay()
SaveDataReject(i, e) ==
    /\ i \in DOMAIN saves
    /\ saves[i].pc = "saving"
    /\ \A j \in 1..(i - 1) : saves[j].pc # "saving"
    /\ saves' = [saves EXCEPT ![i].pc = "rejected", ![i].error = e,
                              ![i].promise = "rejected", ![i].reason = e]
    /\ notices' = IF saves[i].from \in {"ui", "button"}
                  THEN Append(notices, showNotice(<<"Failed to save settings: ">>
                                                  \o ErrorToString(e), 5000))
                  ELSE notices
    /\ tab' = IF saves[i].from = "button" THEN refreshDisplay ELSE tab
    /\ UNCHANGED <<settings, now, year, activeView, activePath, line, cursor, pc, files,
                   uploads, putLog, readLog, editLog, dropped, pasted, eventCalls,
                   nameCalls, target, stored, life, listeners, handlers, registrations,
                   loads, promises, suspended>>

----------------------------------------------------------------------------
(* the settings tab, src/unnamed/part_002 *)

\* updateSettings starting from the defaults instead of the current settings
updateSettings_FromDefaults(currentSettings, key, value) ==
    ObjectSpread(DEFAULT_SETTINGS, [k \in {key} |-> value])

\* updateSettings: `{ ...currentSettings, [key]: value }`
updateSettings(currentSettings, key, value) ==
    ObjectSpread(currentSettings, [k \in {key} |-> value])

\* saveTimeout before the first setTimeout: null.  The handles setTimeout
\* returns are numbered from 1.
NoTimeout == 0

\* the delay handed to setTimeout, in milliseconds
DebounceDelay == 500

\* the tab as display() leaves it: no field edited, no timer.  timers is the set
\* of the host's timers that are set and have neither fired nor been cleared,
\* each with the key and value its closure holds and the time it is due;
\* typed is the sequence of the onChange calls with their times.
\* displayContainer is set by display() (FALSE is null); rendered is the
\* enabledFolders the buttons on display close over, renders the number of
\* renderSettings calls, clicked the Add and Remove clicks made.
FreshTab == [inputs |-> <<>>, timers |-> {}, saveTimeout |-> NoTimeout, typed |-> <<>>,
             edits |-> 0, displayContainer |-> FALSE, rendered |-> <<>>, renders |-> 0,
             clicked |-> <<>>]

\* the timer the handle id names, as a set: clearTimeout of a timer that has
\* fired, or of null, clears nothing
TimerOf(id) == {t \in tab.timers : t.id = id}

\* saveSettingsDebounced without the clearTimeout
EditField_NoClear(key, value) ==
    /\ life = "loaded"
    /\ tab.edits < MaxEdits
    /\ tab' = [inputs |-> ObjectSpread(tab.inputs, [k \in {key} |-> value]),
               timers |-> tab.timers
                          \cup {[id |-> tab.edits + 1, key |-> key, value |-> value,
                                 due |-> now + DebounceDelay]},
               saveTimeout |-> tab.edits + 1,
               typed |-> Append(tab.typed, [key |-> key, value |-> value, at |-> now]),
               edits |-> tab.edits + 1, displayContainer |-> tab.displayContainer,
               rendered |-> tab.rendered, renders |-> tab.renders, clicked |-> tab.clicked]
    /\ UNCHANGED <<settings, now, year, activeView, activePath, line, cursor, pc, files,
                   uploads, putLog, readLog, editLog, notices, dropped, pasted, eventCalls,
                   nameCalls, target, stored, life, listeners, handlers, registrations,
                   loads, saves, promises, suspended>>

\* the user changes the input of field key to value: onChange calls
\* saveSettingsDebounced(key, value), which clears the timer saveTimeout holds
\* and sets a new one, due in DebounceDelay ms
EditField(key, value) ==
    /\ life = "loaded"
    /\ tab.edits < MaxEdits
    /\ tab' = [inputs |-> ObjectSpread(tab.inputs, [k \in {key} |-> value]),
               timers |-> (tab.timers \ TimerOf(tab.saveTimeout))
                          \cup {[id |-> tab.edits + 1, key |-> key, value |-> value,
                                 due |-> now + DebounceDelay]},
               saveTimeout |-> tab.edits + 1,
               typed |-> Append(tab.typed, [key |-> key, value |-> value, at |-> now]),
               edits |-> tab.edits + 1, displayContainer |-> tab.displayContainer,
               rendered |-> tab.rendered, renders |-> tab.renders, clicked |-> tab.clicked]
    /\ UNCHANGED <<settings, now, year, activeView, activePath, line, cursor, pc, files,
                   uploads, putLog, readLog, editLog, notices, dropped, pasted, eventCalls,
                   nameCalls, target, stored, life, listeners, handlers, registrations,
                   loads, saves, promises, suspended>>

\* d ms pass in which no timer of the tab comes due
Elapse(d) ==
    /\ tab.timers # {}
    /\ \A t \in tab.timers : now + d < t.due
    /\ now' = now + d
    /\ UNCHANGED <<settings, year, activeView, activePath, line, cursor, pc, files,
                   uploads, putLog, readLog, editLog, notices, dropped, pasted, eventCalls,
                   nameCalls, target, hostVars, promises, suspended>>

\* time passes until the timer t, the first one due, is due, and the host runs
\* its callback: saveSettingsImmediate reads the current settings, updates them
\* and calls saveSettings.  saveTimeout keeps the handle of the fired timer.
TimeoutFires ==
    \E t \in tab.timers :
        /\ \A u \in tab.timers : t.due <= u.due
        /\ now' = IF t.due > now THEN t.due ELSE now
        /\ tab' = [tab EXCEPT !.timers = tab.timers \ {t}]
        /\ saveSettingsCall(updateSettings(settings, t.key, t.value), "ui")
        /\ UNCHANGED <<year, activeView, activePath, line, cursor, pc, files,
                       uploads, putLog, readLog, editLog, notices, dropped, pasted,
                       eventCalls, nameCalls, target, stored, life, listeners, handlers,
                       registrations, loads, promises, suspended>>

\* String.prototype.trim on a string of one-character chunks, for the white
\* space the inputs use
WhiteSpace == {" "}

RECURSIVE trimStart(_)
trimStart(t) == IF t # <<>> /\ Head(t) \in WhiteSpace THEN trimStart(Tail(t)) ELSE t

RECURSIVE trimEnd(_)
trimEnd(t) ==
    IF t # <<>> /\ t[Len(t)] \in WhiteSpace THEN trimEnd(SubSeq(t, 1, Len(t) - 1)) ELSE t

trim(t) == trimEnd(trimStart(t))

\* `newFolders.splice(index, 1)` on a copy of folders; index counts from 1 here
splice(folders, index) ==
    [j \in 1..(Len(folders) - 1) |-> IF j < index THEN folders[j] ELSE folders[j + 1]]

\* display(containerEl): the host shows the tab
Display ==
    /\ life = "loaded"
    /\ ~tab.displayContainer
    /\ tab' = [renderSettings EXCEPT !.displayContainer = TRUE]
    /\ UNCHANGED <<settings, now, year, activeView, activePath, line, cursor, pc, files,
                   uploads, putLog, readLog, editLog, notices, dropped, pasted, eventCalls,
                   nameCalls, target, stored, life, listeners, handlers, registrations,
                   loads, saves, promises, suspended>>

\* the click handler of the Remove button of the index-th rendered folder, up
\* to the await of saveSettingsImmediate: the new list is the rendered list
\* without that entry
ClickRemove(index) ==
    /\ tab.displayContainer
    /\ index \in DOMAIN tab.rendered
    /\ Len(saves) < MaxEdits
    /\ tab' = [tab EXCEPT !.clicked = Append(tab.clicked,
                              [button |-> "Remove", folder |-> tab.rendered[index],
                               rendering |-> tab.renders])]
    /\ saveSettingsCall(updateSettings(settings, "enabledFolders",
                                       splice(tab.rendered, index)), "button")
    /\ UNCHANGED <<now, year, activeView, activePath, line, cursor, pc, files,
                   uploads, putLog, readLog, editLog, notices, dropped, pasted, eventCalls,
                   nameCalls, target, stored, life, listeners, handlers, registrations,
                   loads, promises, suspended>>

\* the click handler of the Add button with value in the input, up to the await
\* of saveSettingsImmediate: nothing happens for a blank input, else the new
\* list is the rendered list with the trimmed value appended
ClickAdd(value) ==
    /\ tab.displayContainer
    /\ Len(saves) < MaxEdits
    /\ IF trim(value) = <<>>
       THEN UNCHANGED <<settings, saves, tab>>
       ELSE /\ tab' = [tab EXCEPT !.clicked = Append(tab.clicked,
                                     [button |-> "Add", folder |-> trim(value),
                                      rendering |-> tab.renders])]
            /\ saveSettingsCall(updateSettings(settings, "enabledFolders",
                                               Append(tab.rendered, trim(value))),
                                "button")
    /\ UNCHANGED <<now, year, activeView, activePath, line, cursor, pc, files,
                   uploads, putLog, readLog, editLog, notices, dropped, pasted, eventCalls,
                   nameCalls, target, stored, life, listeners, handlers, registrations,
                   loads, promises, suspended>>

----------------------------------------------------------------------------
(* Inputs *)

InitialLine == <<"x", "y">>

SeqsUpTo(S, n) == UNION {[1..k -> S] : k \in 0..n}

ENDPOINT == HTTPS \o <<"e">>
DOCS == <<"d", "o", "c", "s">>

ValidSettings ==
    [endpoint |-> ENDPOINT, accessKeyId |-> <<"k">>, secretAccessKey |-> <<"s">>,
     bucketName |-> <<"b">>, region |-> <<"a", "u", "t", "o">>, customDomain |-> <<>>,
     pathPrefix |-> <<"i", "/">>, useYearSubdirectory |-> TRUE, enabledFolders |-> <<>>]

\* settings of the direct uploadFile calls
UploaderSettings ==
    {[ValidSettings EXCEPT !.endpoint = e, !.accessKeyId = k, !.secretAccessKey = sk,
                           !.bucketName = b, !.customDomain = cd, !.pathPrefix = pp,
                           !.useYearSubdirectory = uy] :
        e \in {<<>>, ENDPOINT, HTTP \o <<"e">>, <<"e">>},
        k \in {<<>>, <<"k">>}, sk \in {<<>>, <<"s">>}, b \in {<<>>, <<"b">>},
        cd \in {<<>>, HTTPS \o <<"c">>},
        pp \in {<<>>, <<"i">>, <<"i", "/">>},
        uy \in BOOLEAN}

\* settings of the plugin at a drop of several files
BatchSettings ==
    {[ValidSettings EXCEPT !.bucketName = b, !.enabledFolders = <<DOCS>>] :
        b \in {<<>>, <<"b">>}}

BatchPaths == {DOCS \o <<"/", "a">>, <<"o", "/", "a">>}

\* settings of the plugin at a drop of one file
PluginSettings ==
    {[ValidSettings EXCEPT !.bucketName = b, !.enabledFolders = ef] :
        b \in {<<>>, <<"b">>},
        ef \in {<<>>, <<DOCS>>, <<<<"n">>, DOCS>>, <<<<>>>>}}

ActivePaths ==
    {<<>>, DOCS, DOCS \o <<"/", "a">>, DOCS \o <<"2", "/", "a">>, <<"o", "/", "a">>}

PNG_A == [name |-> <<"a", ".", "p", "n", "g">>, type |-> IMAGE \o <<"p", "n", "g">>,
          content |-> "bytesA"]
PNG_B == [name |-> <<"b", ":", "c", ".", "p", "n", "g">>, type |-> IMAGE \o <<"p", "n", "g">>,
          content |-> "bytesB"]
PDF_D == [name |-> <<"d", ".", "p", "d", "f">>, type |-> <<"p", "d", "f">>,
          content |-> "bytesD"]
NOT_IMAGE == [name |-> <<"e", ".", "p", "n", "g">>, type |-> <<"i", "m", "a", "g", "e">>,
              content |-> "bytesE"]

DropFiles == {PNG_A, PNG_B, PDF_D, NOT_IMAGE}

\* clipboard items: an image file, copied text, an image item whose getAsFile()
\* returns null, a string item with an image type
ClipItems ==
    {[kind |-> "file", type |-> PNG_A.type, file |-> PNG_A],
     [kind |-> "string", type |-> <<"t">>, file |-> NoFile],
     [kind |-> "file", type |-> PNG_A.type, file |-> NoFile],
     [kind |-> "string", type |-> PNG_A.type, file |-> NoFile]}

FileNames == {<<"t", ".", "p", "n", "g">>, <<"n">>}

Years == {2022, 2025}

Rejections ==
    {[kind |-> "TypeError", message |-> FAILED_TO_FETCH],
     [kind |-> "TypeError", message |-> <<"x">> \o FAILED_TO_FETCH \o <<"y">>],
     [kind |-> "TypeError", message |-> SubSeq(FAILED_TO_FETCH, 1, 14)],
     [kind |-> "Error", message |-> FAILED_TO_FETCH],
     [kind |-> "Error", message |-> <<"N", "e", "t">>],
     [kind |-> "Error", message |-> <<>>],
     [kind |-> "string", message |-> FAILED_TO_FETCH]}

BatchRejections == {[kind |-> "Error", message |-> <<"N", "e", "t">>]}

ReadErrors == {[kind |-> "Error", message |-> <<"r">>]}

\* what the host has stored for the plugin: nothing, an empty object, one field,
\* fields whose stored value differs from a non-empty default, every field
StoredData ==
    {NullData,
     ObjectData(<<>>),
     ObjectData([bucketName |-> <<"b">>]),
     ObjectData([region |-> <<"e", "u">>, pathPrefix |-> <<>>, useYearSubdirectory |-> FALSE]),
     ObjectData([ValidSettings EXCEPT !.enabledFolders = <<DOCS>>])}

\* the settings handed to saveSettings
SavedSettings ==
    {ValidSettings, [ValidSettings EXCEPT !.bucketName = <<"c">>, !.pathPrefix = <<"p">>]}

LoadErrors == {[kind |-> "Error", message |-> <<"L", "o", "a", "d", " ", "f", "a", "i", "l", "e", "d">>]}

\* what the editor throws from getCursor or replaceRange
EditorErrors == {[kind |-> "Error", message |-> <<"E">>]}

SaveErrors == {[kind |-> "Error", message |-> <<"S", "a", "v", "e", " ", "f", "a", "i", "l", "e", "d">>]}

\* the settings saved while a batch is in flight: every field the uploader
\* reads changed, or the defaults, which lack the required fields
ChangedSettings ==
    {[endpoint |-> HTTPS \o <<"f">>, accessKeyId |-> <<"l">>, secretAccessKey |-> <<"t">>,
      bucketName |-> <<"c">>, region |-> <<"e", "u">>, customDomain |-> HTTPS \o <<"d">>,
      pathPrefix |-> <<"p">>, useYearSubdirectory |-> FALSE, enabledFolders |-> <<>>],
     DEFAULT_SETTINGS}

\* the fields edited in the settings tab and the values typed
EditKeys == {"endpoint", "bucketName"}
EditValues == {<<>>, <<"z">>}

\* names given to generateUniqueFileName: one extension, none, several dots,
\* a dot at the end, a dot at the start
OriginalNames ==
    {<<"a", ".", "p", "n", "g">>, <<"n">>, <<"a", ".", "b", ".", "c">>, <<"x", ".">>,
     <<".", "h">>}

\* the plugin after one onload that found the settings stored, the settings tab
\* not opened yet
PluginLoaded ==
    /\ stored = ObjectData(settings)
    /\ life = "loaded"
    /\ listeners = {Listener("drop", <<"dropHandler", 1>>, TRUE),
                    Listener("dragover", <<"dragoverHandler", 1>>, TRUE)}
    /\ handlers = 1
    /\ registrations = <<"addSettingTab", "editor-paste">>
    /\ loads = 1
    /\ saves = <<>>
    /\ tab = FreshTab
    /\ promises = [NoPromises EXCEPT !.onload = Fulfilled]

\* the plugin object after its construction, nothing stored by the host
PluginConstructed ==
    /\ stored = NullData
    /\ life = "constructed"
    /\ listeners = {}
    /\ handlers = 0
    /\ registrations = <<>>
    /\ loads = 0
    /\ saves = <<>>
    /\ tab = FreshTab
    /\ promises = NoPromises

----------------------------------------------------------------------------
(* The plugin handling one drop of up to MaxFiles files *)

Init ==
    /\ settings \in BatchSettings
    /\ now = 9
    /\ year \in {2025}
    /\ activeView \in BOOLEAN
    /\ activePath \in BatchPaths
    /\ line = InitialLine
    /\ cursor \in {0, 1}
    /\ pc = "idle"
    /\ files = <<>>
    /\ uploads = <<>>
    /\ putLog = <<>>
    /\ readLog = <<>>
    /\ editLog = <<>>
    /\ notices = <<>>
    /\ dropped = <<>>
    /\ pasted = <<>>
    /\ eventCalls = {}
    /\ nameCalls = <<>>
    /\ target = "none"
    /\ suspended = NoGesture
    /\ PluginLoaded

Next ==
    \/ \E eventFiles \in SeqsUpTo(DropFiles, MaxFiles) :
          \E ts \in SeqsUpTo(9..MaxClock, MaxFiles) : HandleDrop(eventFiles, ts)
    \/ \E i \in 1..MaxFiles : ReadResolve(i)
    \/ \E i \in 1..MaxFiles : \E e \in ReadErrors : ReadReject(i, e)
    \/ \E i \in 1..MaxFiles : PutResolve(i)
    \/ \E i \in 1..MaxFiles : \E e \in BatchRejections : PutReject(i, e)
    \/ ProcessImagesJoin
    \/ Tick

Spec == Init /\ [][Next]_vars

----------------------------------------------------------------------------------------------------------------------------------------
(* The plugin handling one drop or paste of one item, under every gating condition *)

InitGate ==
    /\ settings \in PluginSettings
    /\ now = 9
    /\ year \in {2025}
    /\ activeView \in BOOLEAN
    /\ activePath \in ActivePaths
    /\ line = InitialLine
    /\ cursor = 1
    /\ pc = "idle"
    /\ files = <<>>
    /\ uploads = <<>>
    /\ putLog = <<>>
    /\ readLog = <<>>
    /\ editLog = <<>>
    /\ notices = <<>>
    /\ dropped = <<>>
    /\ pasted = <<>>
    /\ eventCalls = {}
    /\ nameCalls = <<>>
    /\ target = "none"
    /\ suspended = NoGesture
    /\ PluginLoaded

NextGate ==
    \/ \E eventFiles \in SeqsUpTo(DropFiles, 1) :
          \E ts \in SeqsUpTo(9..MaxClock, 1) : HandleDrop(eventFiles, ts)
    \/ \E items \in SeqsUpTo(ClipItems, 1) :
          \E ts \in SeqsUpTo(9..MaxClock, 1) : HandlePaste(items, ts)
    \/ ReadResolve(1)
    \/ \E e \in ReadErrors : ReadReject(1, e)
    \/ PutResolve(1)
    \/ \E e \in BatchRejections : PutReject(1, e)
    \/ ProcessImagesJoin
    \/ Tick

SpecGate == InitGate /\ [][NextGate]_vars

----------------
(* uploadFile called directly, as the unit tests call it *)

InitUpload ==
    /\ settings \in UploaderSettings
    /\ now = 9
    /\ year \in Years
    /\ activeView = FALSE
    /\ activePath = <<>>
    /\ line = <<>>
    /\ cursor = 0
    /\ pc = "idle"
    /\ files = <<>>
    /\ uploads = <<>>
    /\ putLog = <<>>
    /\ readLog = <<>>
    /\ editLog = <<>>
    /\ notices = <<>>
    /\ dropped = <<>>
    /\ pasted = <<>>
    /\ eventCalls = {}
    /\ nameCalls = <<>>
    /\ target = "none"
    /\ suspended = NoGesture
    /\ PluginConstructed

NextUpload ==
    \/ \E fileName \in FileNames : CallUploadFile(PNG_A, fileName)
    \/ ReadResolve(1)
    \/ \E e \in ReadErrors : ReadReject(1, e)
    \/ PutResolve(1)
    \/ \E e \in Rejections : PutReject(1, e)
    \/ Tick

SpecUpload == InitUpload /\ [][NextUpload]_vars

----------------------------------------------------------------------------
(* generateUniqueFileName called directly, as the unit tests call it *)

InitName ==
    /\ settings = DEFAULT_SETTINGS
    /\ now = 9
    /\ year \in {2025}
    /\ activeView = FALSE
    /\ activePath = <<>>
    /\ line = <<>>
    /\ cursor = 0
    /\ pc = "naming"
    /\ files = <<>>
    /\ uploads = <<>>
    /\ putLog = <<>>
    /\ readLog = <<>>
    /\ editLog = <<>>
    /\ notices = <<>>
    /\ dropped = <<>>
    /\ pasted = <<>>
    /\ eventCalls = {}
    /\ nameCalls = <<>>
    /\ target = "none"
    /\ suspended = NoGesture
    /\ PluginConstructed

NextName ==
    \/ \E originalName \in OriginalNames : CallGenerateUniqueFileName(originalName)
    \/ Tick

SpecName == InitName /\ [][NextName]_vars

----------------------------------------------------------------------------
(* The plugin loaded and unloaded by the host, and its settings saved *)

InitLife ==
    /\ settings = DEFAULT_SETTINGS
    /\ now = 9
    /\ year \in {2025}
    /\ activeView = FALSE
    /\ activePath = <<>>
    /\ line = <<>>
    /\ cursor = 0
    /\ pc = "idle"
    /\ files = <<>>
    /\ uploads = <<>>
    /\ putLog = <<>>
    /\ readLog = <<>>
    /\ editLog = <<>>
    /\ notices = <<>>
    /\ dropped = <<>>
    /\ pasted = <<>>
    /\ eventCalls = {}
    /\ nameCalls = <<>>
    /\ target = "none"
    /\ suspended = NoGesture
    /\ stored \in StoredData
    /\ life = "constructed"
    /\ listeners = {}
    /\ handlers = 0
    /\ registrations = <<>>
    /\ loads = 0
    /\ saves = <<>>
    /\ tab = FreshTab
    /\ promises = NoPromises

NextLife ==
    \/ OnloadStart
    \/ LoadDataResolve
    \/ \E e \in LoadErrors : LoadDataReject(e)
    \/ Onunload
    \/ \E newSettings \in SavedSettings : life = "loaded" /\ SaveSettings(newSettings)
    \/ \E i \in 1..MaxEdits : SaveDataResolve(i)
    \/ \E i \in 1..MaxEdits : \E e \in SaveErrors : SaveDataReject(i, e)

SpecLife == InitLife /\ [][NextLife]_vars

----------------------------------------------------------------------------
(* The settings tab edited by the user, and saveSettings called directly *)

InitTab ==
    /\ settings = ValidSettings
    /\ now = 9
    /\ year \in {2025}
    /\ activeView = FALSE
    /\ activePath = <<>>
    /\ line = <<>>
    /\ cursor = 0
    /\ pc = "idle"
    /\ files = <<>>
    /\ uploads = <<>>
    /\ putLog = <<>>
    /\ readLog = <<>>
    /\ editLog = <<>>
    /\ notices = <<>>
    /\ dropped = <<>>
    /\ pasted = <<>>
    /\ eventCalls = {}
    /\ nameCalls = <<>>
    /\ target = "none"
    /\ suspended = NoGesture
    /\ PluginLoaded

NextTab ==
    \/ \E key \in EditKeys : \E value \in EditValues : EditField(key, value)
    \/ TimeoutFires
    \/ \E newSettings \in SavedSettings : SaveSettings(newSettings)
    \/ \E i \in 1..(2 * MaxEdits) : SaveDataResolve(i)
    \/ \E i \in 1..(2 * MaxEdits) : \E e \in SaveErrors : SaveDataReject(i, e)

SpecTab == InitTab /\ [][NextTab]_vars

----------------------------------------------------------------------------
(* The fields of the settings tab edited in bursts, with the time passing *)

\* the times between two events, in milliseconds
ElapseSteps == {200, 300}

NextDebounce ==
    \/ \E key \in EditKeys : \E value \in EditValues : EditField(key, value)
    \/ \E d \in ElapseSteps : Elapse(d)
    \/ TimeoutFires
    \/ \E i \in 1..MaxEdits : SaveDataResolve(i)
    \/ \E i \in 1..MaxEdits : \E e \in SaveErrors : SaveDataReject(i, e)

SpecDebounce == InitTab /\ [][NextDebounce]_vars

----------------------------------------------------------------------------
(* The list of enabled folders edited with the Add and Remove buttons *)

\* the folder paths typed into the input before Add is clicked
AddValues == {<<" ">>, <<"m">>, <<"q", " ">>}

InitFolders ==
    /\ settings = [ValidSettings EXCEPT !.enabledFolders = <<DOCS, <<"n">>>>]
    /\ now = 9
    /\ year \in {2025}
    /\ activeView = FALSE
    /\ activePath = <<>>
    /\ line = <<>>
    /\ cursor = 0
    /\ pc = "idle"
    /\ files = <<>>
    /\ uploads = <<>>
    /\ putLog = <<>>
    /\ readLog = <<>>
    /\ editLog = <<>>
    /\ notices = <<>>
    /\ dropped = <<>>
    /\ pasted = <<>>
    /\ eventCalls = {}
    /\ nameCalls = <<>>
    /\ target = "none"
    /\ suspended = NoGesture
    /\ PluginLoaded

NextFolders ==
    \/ Display
    \/ \E index \in 1..(2 + MaxEdits) : ClickRemove(index)
    \/ \E value \in AddValues : ClickAdd(value)
    \/ \E i \in 1..MaxEdits : SaveDataResolve(i)
    \/ \E i \in 1..MaxEdits : \E e \in SaveErrors : SaveDataReject(i, e)

SpecFolders == InitFolders /\ [][NextFolders]_vars

----------------------------------------------------------------------------
(* A drop of images with the settings saved while the uploads are in flight *)

InitSnapshot ==
    /\ settings = [ValidSettings EXCEPT !.enabledFolders = <<DOCS>>]
    /\ now = 9
    /\ year \in {2025}
    /\ activeView = TRUE
    /\ activePath = DOCS \o <<"/", "a">>
    /\ line = InitialLine
    /\ cursor = 1
    /\ pc = "idle"
    /\ files = <<>>
    /\ uploads = <<>>
    /\ putLog = <<>>
    /\ readLog = <<>>
    /\ editLog = <<>>
    /\ notices = <<>>
    /\ dropped = <<>>
    /\ pasted = <<>>
    /\ eventCalls = {}
    /\ nameCalls = <<>>
    /\ target = "none"
    /\ suspended = NoGesture
    /\ PluginLoaded

NextSnapshot ==
    \/ \E eventFiles \in SeqsUpTo({PNG_A}, MaxFiles) :
          \E ts \in SeqsUpTo(9..MaxClock, MaxFiles) : HandleDrop(eventFiles, ts)
    \/ \E i \in 1..MaxFiles : ReadResolve(i)
    \/ \E i \in 1..MaxFiles : \E e \in ReadErrors : ReadReject(i, e)
    \/ \E i \in 1..MaxFiles : PutResolve(i)
    \/ \E i \in 1..MaxFiles : \E e \in BatchRejections : PutReject(i, e)
    \/ ProcessImagesJoin
    \/ \E newSettings \in ChangedSettings :
          pc = "uploading" /\ saves = <<>> /\ SaveSettings(newSettings)
    \/ SaveDataResolve(1)
    \/ \E e \in SaveErrors : SaveDataReject(1, e)

SpecSnapshot == InitSnapshot /\ [][NextSnapshot]_vars

----------------------------------------------------------------------------
(* A drop or paste of images with an editor that may throw during insertion *)

NextFault ==
    \/ \E eventFiles \in SeqsUpTo({PNG_A, PDF_D}, MaxFiles) :
          \E ts \in SeqsUpTo(9..MaxClock, MaxFiles) : HandleDrop(eventFiles, ts)
    \/ \E items \in SeqsUpTo(ClipItems, 1) :
          \E ts \in SeqsUpTo(9..MaxClock, 1) : HandlePaste(items, ts)
    \/ \E i \in 1..MaxFiles : ReadResolve(i)
    \/ \E i \in 1..MaxFiles : \E e \in ReadErrors : ReadReject(i, e)
    \/ \E i \in 1..MaxFiles : PutResolve(i)
    \/ \E i \in 1..MaxFiles : \E e \in BatchRejections : PutReject(i, e)
    \/ ProcessImagesJoin
    \/ \E k \in 0..MaxFiles : \E e \in EditorErrors : ProcessImagesJoinThrows(k, e)

SpecFault == InitSnapshot /\ [][NextFault]_vars

----------------------------------------------------------------------------
(* Two gestures in flight at the same time *)

\* the files of the drops: two images, or one image with another name
BatchDrops == {<<PNG_A, PNG_A>>, <<PNG_B>>}

NextBatches ==
    \/ \E eventFiles \in BatchDrops :
          \E ts \in SeqsUpTo({now}, Len(eventFiles)) : HandleDrop(eventFiles, ts)
    \/ \E i \in 1..MaxFiles : ReadResolve(i)
    \/ \E i \in 1..MaxFiles : PutResolve(i)
    \/ \E i \in 1..MaxFiles : \E e \in BatchRejections : PutReject(i, e)
    \/ ProcessImagesJoin
    \/ Switch

SpecBatches == InitSnapshot /\ [][NextBatches]_vars

----------------------------------------------------------------------------
(* Properties *)

EmptyRequiredFields(s) ==
    {f \in {"endpoint", "accessKeyId", "secretAccessKey", "bucketName"} : s[f] = <<>>}

\* C1: an uploadFile call whose settings have an empty endpoint, accessKeyId,
\* secretAccessKey or bucketName has failed when it returns, with the message
\* 'Missing required settings: ' followed by the names of exactly the empty
\* fields, each once, separated by ', '; no file was read and no PUT was sent.
C1_MissingSettings ==
    \A i \in DOMAIN uploads :
        LET u == uploads[i]
            missing == EmptyRequiredFields(u.settings)
            msg == u.result.error
        IN  missing # {} =>
                /\ u.pc = "done"
                /\ u.result.success = FALSE
                /\ Len(msg) = 2 * Cardinality(missing)
                /\ msg[1] = "Missing required settings: "
                /\ \A j \in 2..Len(msg) : j % 2 = 1 => msg[j] = ", "
                /\ {msg[j] : j \in {k \in 2..Len(msg) : k % 2 = 0}} = missing
                /\ readLog = <<>>
                /\ putLog = <<>>

\* C1 witness: a call with exactly endpoint and bucketName empty has returned
C1_Witness ==
    /\ pc = "called"
    /\ EmptyRequiredFields(uploads[1].settings) = {"endpoint", "bucketName"}
    /\ Str(uploads[1].result.error) = "Missing required settings: endpoint, bucketName"

\* C2: any two upload attempts of the plugin that have generated their object
\* keys have generated different keys.
C2_UniqueKeys ==
    \A i, j \in DOMAIN uploads :
        (i # j /\ uploads[i].key # <<>> /\ uploads[j].key # <<>>)
            => uploads[i].key # uploads[j].key

\* the active file is in a listed folder: its path is a listed folder, or a
\* listed folder followed by '/' and more; with no active file it is in none
InListedFolder(path, folders) ==
    /\ path # <<>>
    /\ \E k \in DOMAIN folders :
          \/ path = folders[k]
          \/ /\ Len(path) > Len(folders[k])
             /\ SubSeq(path, 1, Len(folders[k])) = folders[k]
             /\ path[Len(folders[k]) + 1] = "/"

IsImageType(file) ==
    /\ Len(file.type) >= 6
    /\ SubSeq(file.type, 1, 6) = <<"i", "m", "a", "g", "e", "/">>

FolderNoticeShown ==
    \E n \in DOMAIN notices :
        Str(notices[n].message) = "Current folder is not enabled for uploads"

\* C3: with a non-empty enabledFolders, a drop or paste handled in a markdown view passes
\* the folder gate exactly when the active file is in a listed folder: if it is,
\* no folder notice is shown and uploadFile is called whenever the settings are
\* complete and an image was dropped; if it is not (a path that only shares a
\* textual prefix, no active file), the gesture ends with the single notice
\* 'Current folder is not enabled for uploads' and no upload call, read or PUT.
\* Without a markdown view no upload is made either.
C3_FolderGating ==
    (pc # "idle" /\ Len(settings.enabledFolders) > 0) =>
        IF InListedFolder(activePath, settings.enabledFolders)
        THEN /\ ~FolderNoticeShown
             /\ activeView =>
                  ((uploads # <<>>) <=>
                       /\ EmptyRequiredFields(settings) = {}
                       /\ \/ \E k \in DOMAIN dropped : IsImageType(dropped[k])
                          \/ \E k \in DOMAIN pasted :
                                /\ pasted[k].kind = "file"
                                /\ IsImageType(pasted[k])
                                /\ pasted[k].file # NoFile)
        ELSE /\ uploads = <<>> /\ putLog = <<>> /\ readLog = <<>>
             /\ pc = "done"
             /\ eventCalls = {}
             /\ activeView =>
                  /\ Len(notices) = 1
                  /\ FolderNoticeShown

\* C3 witness: folder 'docs', active file 'docs2/a', an image dropped with
\* complete settings: blocked with the notice
C3_Witness ==
    /\ pc = "done"
    /\ activeView
    /\ settings.enabledFolders = <<DOCS>>
    /\ activePath = DOCS \o <<"2", "/", "a">>
    /\ EmptyRequiredFields(settings) = {}
    /\ dropped = <<PNG_A>>
    /\ FolderNoticeShown
    /\ uploads = <<>>

RECURSIVE Concat(_)
Concat(texts) == IF texts = <<>> THEN <<>> ELSE Head(texts) \o Concat(Tail(texts))

\* the indices of the succeeded uploads, in input order
SucceededIndices ==
    LET Ok(i) == uploads[i].result.success
    IN  SelectSeq([i \in 1..Len(uploads) |-> i], Ok)

\* the markdown link of the i-th file of the batch
LinkOf(i) ==
    <<"!", "[">> \o sanitize(files[i].name) \o <<"]", "(">>
        \o uploads[i].result.data.url \o <<")">>

BatchDone == pc = "done" /\ uploads # <<>>

\* C4: when a batch with k succeeded uploads is done, replaceRange has been
\* called exactly k times, the j-th call with the link of the j-th succeeded
\* file in input order, at column cursor + the lengths of the links before it;
\* the line is its old text with the k links, one after the other, at the cursor.
C4_LinksInOrder ==
    BatchDone =>
        LET idx == SucceededIndices
            texts == [j \in 1..Len(idx) |-> LinkOf(idx[j])]
        IN  /\ Len(editLog) = Len(idx)
            /\ \A j \in 1..Len(idx) :
                  /\ editLog[j].text = texts[j]
                  /\ editLog[j].ch = cursor + Len(Concat(SubSeq(texts, 1, j - 1)))
            /\ line = SubSeq(InitialLine, 1, cursor) \o Concat(texts)
                        \o SubSeq(InitialLine, cursor + 1, Len(InitialLine))

\* C4 witness: two different files both succeeded, the second upload having
\* completed before the first, and the cursor was inside the line
C4_Witness ==
    /\ BatchDone
    /\ cursor = 1
    /\ files = <<PNG_A, PNG_B>>
    /\ uploads[1].result.success /\ uploads[2].result.success
    /\ uploads[2].result.data.timestamp < uploads[1].result.data.timestamp
    /\ Len(editLog) = 2

\* C5: every uploadFile call is pending or has returned a result (it never
\* rejects); every file of the batch has its call; and when the batch is done
\* every call has returned and each succeeded file has its link in the line,
\* whichever of the other files failed.
C5_SiblingsProcessed ==
    /\ \A i \in DOMAIN uploads : uploads[i].pc \in {"reading", "sending", "done"}
    /\ pc \in {"uploading", "done"} /\ uploads # <<>> =>
          /\ Len(uploads) = Len(files)
          /\ \A i \in DOMAIN uploads : uploads[i].file = files[i]
    /\ BatchDone =>
          /\ \A i \in DOMAIN uploads : uploads[i].pc = "done"
          /\ Len(editLog) = Len(SucceededIndices)
          /\ \A i \in DOMAIN uploads :
                uploads[i].result.success =>
                    /\ \E j \in DOMAIN editLog : editLog[j].text = LinkOf(i)
                    /\ Includes(line, LinkOf(i))

\* C5 witness: the first file failed to be read, the second was rejected by
\* the store or succeeded, and a succeeded sibling has its link
C5_Witness ==
    /\ BatchDone
    /\ Len(uploads) = 2
    /\ uploads[1].failedAt = "read"
    /\ uploads[2].result.success
    /\ Includes(line, LinkOf(2))

\* C6: when a batch of n files is done, n notices have been shown, the i-th
\* for the i-th file: 'Successfully uploaded <name>' with timeout 2000 if it
\* succeeded, 'Failed to upload <name>: <error>' with timeout 0 if it failed,
\* <name> being the sanitized file name.
C6_OneNoticePerFile ==
    BatchDone =>
        /\ Len(notices) = Len(files)
        /\ \A i \in DOMAIN files :
              LET safeName == Str(sanitize(files[i].name))
              IN  IF uploads[i].result.success
                  THEN /\ notices[i].timeout = 2000
                       /\ Str(notices[i].message) = "Successfully uploaded " \o safeName
                  ELSE /\ notices[i].timeout = 0
                       /\ Str(notices[i].message) =
                            "Failed to upload " \o safeName \o ": "
                                \o Str(uploads[i].result.error)

\* C6 witness: a batch of two files is done, one succeeded and one was rejected
C6_Witness ==
    /\ BatchDone
    /\ Len(files) = 2
    /\ uploads[1].result.success
    /\ uploads[2].failedAt = "put"
    /\ Str(notices[2].message) = "Failed to upload b_c.png: Upload failed: Error: Net"

GatesPassed ==
    /\ activeView
    /\ Len(settings.enabledFolders) = 0
         \/ InListedFolder(activePath, settings.enabledFolders)
    /\ EmptyRequiredFields(settings) = {}

\* C7: after a drop that passed the view, folder and settings gates, the files
\* of the uploadFile calls are exactly the dropped files whose type starts with
\* 'image/', in the order they were dropped.
C7_OnlyImagesUploaded ==
    (pc # "idle" /\ GatesPassed) =>
        [i \in 1..Len(uploads) |-> uploads[i].file] = SelectSeq(dropped, IsImageType)

\* C7 witness: a PDF and a PNG were dropped and the only upload call is the PNG's
C7_Witness ==
    /\ pc = "uploading"
    /\ dropped = <<PDF_D, PNG_A>>
    /\ Len(uploads) = 1
    /\ uploads[1].file = PNG_A

ContainsText(t, p) == \E a \in 1..Len(t) : a + Len(p) - 1 <= Len(t) /\ SubSeq(t, a, a + Len(p) - 1) = p

\* C8: a call whose PUT was rejected has returned a failure; its message is the
\* CORS text (with 'CORS error' and 'app://obsidian.md') if the cause is a
\* TypeError whose message contains 'Failed to fetch', and 'Upload failed: '
\* followed by the cause's text otherwise.
C8_RejectionMessage ==
    \A i \in DOMAIN uploads :
        LET u == uploads[i]
        IN  u.failedAt = "put" =>
                /\ u.pc = "done"
                /\ u.result.success = FALSE
                /\ IF u.cause.kind = "TypeError" /\ ContainsText(u.cause.message, FAILED_TO_FETCH)
                   THEN /\ Str(u.result.error) =
                             "Upload failed: CORS error. Please add \"app://obsidian.md\" to AllowedOrigins in your R2 bucket CORS policy."
                        /\ \E a \in DOMAIN u.result.error : u.result.error[a] = "CORS error"
                        /\ \E a \in DOMAIN u.result.error : u.result.error[a] = "app://obsidian.md"
                   ELSE Str(u.result.error) =
                            "Upload failed: " \o Str(ErrorToString(u.cause))

\* C8 witness: the PUT was rejected with an Error (not a TypeError) whose
\* message is 'Failed to fetch', and the generic message was returned
C8_Witness ==
    /\ pc = "called"
    /\ uploads[1].failedAt = "put"
    /\ uploads[1].cause = [kind |-> "Error", message |-> FAILED_TO_FETCH]
    /\ Str(uploads[1].result.error) = "Upload failed: Error: Failed to fetch"

\* the endpoint with its scheme prefix removed
WithoutScheme(endpoint) ==
    IF Len(endpoint) >= 8 /\ SubSeq(endpoint, 1, 8) = HTTPS
    THEN SubSeq(endpoint, 9, Len(endpoint))
    ELSE IF Len(endpoint) >= 7 /\ SubSeq(endpoint, 1, 7) = HTTP
    THEN SubSeq(endpoint, 8, Len(endpoint))
    ELSE endpoint

\* C9: the URL of a succeeded upload is '<customDomain>/<key>' when customDomain
\* is non-empty, and 'https://<bucketName>.<endpoint without its scheme>/<key>'
\* otherwise, whether the endpoint is written with https://, http:// or no scheme.
C9_UrlConstruction ==
    \A i \in DOMAIN uploads :
        LET u == uploads[i]
        IN  u.result.success =>
                Str(u.result.data.url) =
                    IF u.settings.customDomain # <<>>
                    THEN Str(u.settings.customDomain) \o "/" \o Str(u.key)
                    ELSE "https://" \o Str(u.settings.bucketName) \o "."
                            \o Str(WithoutScheme(u.settings.endpoint)) \o "/" \o Str(u.key)

FourDigits(y) ==
    <<Digit(y \div 1000), Digit((y \div 100) % 10), Digit((y \div 10) % 10), Digit(y % 10)>>

\* C10: the key of every PUT is P + Y + fileName, P being pathPrefix if it ends
\* in '/' and pathPrefix + '/' otherwise, and Y the four digits of the current
\* year and '/' when useYearSubdirectory is set, empty otherwise.
C10_KeyConstruction ==
    /\ \A n \in DOMAIN putLog : \E i \in DOMAIN uploads : uploads[i].key = putLog[n].Key
    /\ \A i \in DOMAIN uploads :
          LET u == uploads[i]
              pp == u.settings.pathPrefix
              P == IF pp # <<>> /\ pp[Len(pp)] = "/" THEN pp ELSE pp \o <<"/">>
              Y == IF u.settings.useYearSubdirectory THEN FourDigits(year) \o <<"/">>
                   ELSE <<>>
          IN  u.pc = "sending" \/ u.failedAt = "put" \/ u.result.success =>
                  /\ u.key = P \o Y \o u.fileName
                  /\ \E n \in DOMAIN putLog : putLog[n].Key = u.key

\* C10 witness: a PUT was sent with pathPrefix 'i' (no trailing '/'), the year
\* subdirectory on, in 2022
C10_Witness ==
    /\ Len(putLog) = 1
    /\ uploads[1].settings.pathPrefix = <<"i">>
    /\ uploads[1].settings.useYearSubdirectory
    /\ Str(putLog[1].Key) = "i/2022/t.png"

\* the decimal digits of a clock reading below 100
TimeText(t) == IF t < 10 THEN <<Digit(t)>> ELSE <<Digit(t \div 10), Digit(t % 10)>>

\* C11: generateUniqueFileName(name) called when the clock reads T returns the
\* digits of T, a dot, and the part of name after its last dot (the whole name
\* when it has no dot), nothing else of the name; two calls with the same name
\* at different clock readings return different results.
C11_UniqueFileName ==
    /\ \A i \in DOMAIN nameCalls :
          LET c == nameCalls[i]
              n == c.originalName
          IN  \E k \in 0..Len(n) :
                 /\ k = 0 \/ n[k] = "."
                 /\ \A j \in (k + 1)..Len(n) : n[j] # "."
                 /\ Str(c.result) = Str(TimeText(c.at)) \o "." \o Str(SubSeq(n, k + 1, Len(n)))
    /\ \A i, j \in DOMAIN nameCalls :
          (nameCalls[i].originalName = nameCalls[j].originalName
           /\ nameCalls[i].at # nameCalls[j].at)
          => Str(nameCalls[i].result) # Str(nameCalls[j].result)

\* C11 witness: 'a.b.c' named twice, at two different clock readings
C11_Witness ==
    /\ Len(nameCalls) >= 2
    /\ nameCalls[1].originalName = <<"a", ".", "b", ".", "c">>
    /\ nameCalls[2].originalName = <<"a", ".", "b", ".", "c">>
    /\ nameCalls[1].at # nameCalls[2].at

AllSuppressed == {"preventDefault", "stopPropagation", "stopImmediatePropagation"}

\* C16: after a drop, preventDefault, stopPropagation and stopImmediatePropagation
\* have been called on the event if and only if there is an active markdown
\* view, the folder and settings preconditions pass and at least one dropped
\* file is an image; otherwise no method of the event has been called.
C16_DropSuppression ==
    (pc # "idle" /\ pasted = <<>>) =>
        IF GatesPassed /\ (\E k \in DOMAIN dropped : IsImageType(dropped[k]))
        THEN eventCalls = AllSuppressed
        ELSE eventCalls = {}

\* C16 witness: a drop of a PDF in an enabled folder with complete settings and
\* a markdown view: the event is untouched
C16_Witness ==
    /\ pc = "done"
    /\ GatesPassed
    /\ dropped = <<PDF_D>>
    /\ eventCalls = {}

IsImageItem(item) == item.kind = "file" /\ IsImageType(item) /\ item.file # NoFile

\* C17: a drop or paste without any image file shows no notice and makes no
\* upload call and no PUT, whatever the settings and the active file's folder.
C17_SilentWithoutImage ==
    (/\ pc # "idle"
     /\ \A k \in DOMAIN dropped : ~IsImageType(dropped[k])
     /\ \A k \in DOMAIN pasted : ~IsImageItem(pasted[k]))
    => (notices = <<>> /\ uploads = <<>> /\ putLog = <<>>)

\* C18: after a paste, the files handed to processImages are the files of the
\* clipboard items of kind 'file' with a type starting with 'image/' and a
\* non-null getAsFile(), in order; if the view, folder and settings gates pass
\* and there is such a file, exactly preventDefault was called on the event and
\* processImages got the editor of the event; otherwise the event is untouched
\* and nothing is processed.
C18_PasteGating ==
    (pc # "idle" /\ dropped = <<>>) =>
        LET imageItems == SelectSeq(pasted, IsImageItem)
        IN  IF GatesPassed /\ imageItems # <<>>
            THEN /\ eventCalls = {"preventDefault"}
                 /\ files = [i \in 1..Len(imageItems) |-> imageItems[i].file]
                 /\ [i \in 1..Len(uploads) |-> uploads[i].file] = files
                 /\ target = "event.editor"
            ELSE /\ eventCalls = {}
                 /\ files = <<>>
                 /\ uploads = <<>>
                 /\ target = "none"

\* C18 witness: an image pasted in an enabled folder, uploaded and inserted
C18_Witness ==
    /\ pc = "done"
    /\ Len(pasted) = 1
    /\ IsImageItem(pasted[1])
    /\ eventCalls = {"preventDefault"}
    /\ target = "event.editor"
    /\ editLog # <<>>

FieldNames ==
    {"endpoint", "accessKeyId", "secretAccessKey", "bucketName", "region", "customDomain",
     "pathPrefix", "useYearSubdirectory", "enabledFolders"}

DefaultOf(f) ==
    CASE f = "region" -> <<"a", "u", "t", "o">>
      [] f = "pathPrefix" -> <<"i", "m", "a", "g", "e", "s", "/">>
      [] f = "useYearSubdirectory" -> TRUE
      [] OTHER -> <<>>

\* C12: when loadSettings completes, every settings field has its stored value
\* if the stored data has the field and its default otherwise (region 'auto',
\* pathPrefix 'images/', useYearSubdirectory true, enabledFolders empty, the
\* other strings empty); null or empty stored data gives exactly the defaults.
C12_LoadMergesDefaults ==
    [][(life = "loading" /\ life' = "loaded") =>
          /\ \A f \in FieldNames :
                settings'[f] = IF stored.kind = "object" /\ f \in DOMAIN stored.fields
                               THEN stored.fields[f]
                               ELSE DefaultOf(f)
          /\ (stored.kind = "null" \/ DOMAIN stored.fields = {})
                => DOMAIN settings' = FieldNames]_vars

\* C12 witness: the stored data had region, pathPrefix and useYearSubdirectory
\* only; they were loaded over the defaults and the other fields are empty
C12_Witness ==
    /\ life = "loaded"
    /\ stored.kind = "object"
    /\ DOMAIN stored.fields = {"region", "pathPrefix", "useYearSubdirectory"}
    /\ settings.region = <<"e", "u">>
    /\ settings.useYearSubdirectory = FALSE
    /\ settings.bucketName = <<>>

\* C19: after a successful onload exactly one capture-phase 'drop' listener and
\* one capture-phase 'dragover' listener are registered on the document, those
\* of the plugin's stored handlers; after onunload none remains; this holds
\* after every number of onload/onunload cycles and after repeated onunload.
C19_ListenerLifecycle ==
    /\ life = "loaded" =>
          /\ Cardinality(listeners) = 2
          /\ \A type \in {"drop", "dragover"} :
                Cardinality({l \in listeners : l.type = type /\ l.capture
                                                 /\ l.handler[2] = handlers}) = 1
    /\ life = "unloaded" => listeners = {}

\* C19 witness: the second onload/onunload cycle is over
C19_Witness ==
    /\ loads = 2
    /\ life = "unloaded"
    /\ handlers = 2
    /\ listeners = {}

\* C13: once no debounce timer is pending and every save, all made by the
\* settings tab, has been stored by the host, the stored data holds for every
\* edited field the value last typed into it.
C13_EditsPersisted ==
    (/\ tab.timers = {}
     /\ \A i \in DOMAIN saves : saves[i].from = "ui" /\ saves[i].pc = "resolved")
    => \A k \in DOMAIN tab.inputs :
          /\ stored.fields[k] = tab.inputs[k]
          /\ \E i \in DOMAIN saves : saves[i].arg[k] = tab.inputs[k]

\* C15: when the debounced save of an edit of key K fires, the snapshot handed
\* to saveSettings has the new value for K and, for every other field, the value
\* of the settings current at that moment; the snapshots handed to earlier saves
\* keep their values.
C15_UpdateIsNewSnapshot ==
    [][(tab'.edits = tab.edits /\ tab'.timers # tab.timers) =>
          LET t == CHOOSE u \in tab.timers : u \notin tab'.timers
              k == t.key
              snapshot == saves'[Len(saves')].arg
          IN  /\ Len(saves') = Len(saves) + 1
              /\ DOMAIN snapshot = DOMAIN settings
              /\ snapshot[k] = t.value
              /\ \A f \in DOMAIN settings \ {k} : snapshot[f] = settings[f]
              /\ \A i \in DOMAIN saves :
                    saves'[i].arg = saves[i].arg /\ saves'[i].data = saves[i].data]_vars

\* C15 witness: after a direct save that changed bucketName and pathPrefix, the
\* save of an edit of endpoint carries the changed bucketName and pathPrefix
C15_Witness ==
    /\ Len(saves) = 2
    /\ saves[1].from = "direct"
    /\ saves[1].arg.bucketName = <<"c">>
    /\ saves[2].from = "ui"
    /\ saves[2].arg.endpoint = <<"z">>
    /\ saves[2].arg.bucketName = <<"c">>
    /\ saves[2].arg.pathPrefix = <<"p">>
    /\ saves[1].arg.endpoint = ENDPOINT

\* C20: every saveSettings(s) call has handed s itself to saveData; when
\* saveData rejected, the promise of saveSettings rejected with the same error;
\* the notices are exactly one 'Failed to save settings: ...' notice per
\* rejected save made by the settings tab.
C20_SaveHandsOver ==
    /\ \A i \in DOMAIN saves :
          /\ saves[i].data = saves[i].arg
          /\ saves[i].pc = "saving" => saves[i].promise = "pending"
          /\ saves[i].pc = "resolved" => saves[i].promise = "fulfilled"
          /\ saves[i].pc = "rejected" =>
                (saves[i].promise = "rejected" /\ saves[i].reason = saves[i].error)
    /\ Len(notices) = Cardinality({i \in DOMAIN saves :
                                      saves[i].from = "ui" /\ saves[i].pc = "rejected"})
    /\ \A n \in DOMAIN notices :
          Str(notices[n].message) = "Failed to save settings: Error: Save failed"

\* C20 witness: a direct save and a save of the settings tab were both rejected
C20_Witness ==
    /\ \E i \in DOMAIN saves : saves[i].from = "direct" /\ saves[i].promise = "rejected"
    /\ \E i \in DOMAIN saves : saves[i].from = "ui" /\ saves[i].promise = "rejected"
    /\ Len(notices) = 1

\* C14: in a batch dispatched with bucket 'b', prefix 'i/', year folders,
\* credentials 'k'/'s', endpoint 'https://e' and no custom domain, every PUT
\* goes to bucket 'b' with a key 'i/2025/<name>' through a client with that
\* endpoint and those credentials, every returned URL is
\* 'https://b.e/i/2025/<name>', and no upload fails on its settings, whatever
\* saveSettings stored in the plugin while the uploads were in flight.
C14_SnapshotUsed ==
    /\ \A n \in DOMAIN putLog :
          /\ putLog[n].Bucket = <<"b">>
          /\ \E i \in DOMAIN uploads :
                Str(putLog[n].Key) = "i/2025/" \o Str(uploads[i].fileName)
          /\ Str(putLog[n].client.endpoint) = "https://e"
          /\ putLog[n].client.credentials.accessKeyId = <<"k">>
          /\ putLog[n].client.credentials.secretAccessKey = <<"s">>
    /\ \A i \in DOMAIN uploads :
          /\ uploads[i].failedAt # "settings"
          /\ uploads[i].result.success =>
                Str(uploads[i].result.data.url)
                  = "https://b.e/i/2025/" \o Str(uploads[i].fileName)

\* C14 witness: two files uploaded and linked, the settings replaced by a save
\* made while their uploads were in flight
C14_Witness ==
    /\ pc = "done"
    /\ Len(putLog) = 2
    /\ Len(editLog) = 2
    /\ Len(saves) = 1
    /\ settings.bucketName = <<"c">>
    /\ settings.pathPrefix = <<"p">>

\* the calls whose settings are complete and whose file bytes were read
ReadyCalls ==
    {i \in DOMAIN uploads :
        /\ EmptyRequiredFields(uploads[i].settings) = {}
        /\ uploads[i].pc \in {"sending", "done"}
        /\ uploads[i].failedAt \notin {"settings", "read"}}

\* C21: the PUTs sent are one per uploadFile call whose settings are complete
\* and whose file bytes were read, none for the other calls and none more after
\* a rejection; the PUT of a call carries the bucket of its settings, its
\* generated key, the file's bytes and the file's type.
C21_SinglePut ==
    /\ Len(putLog) = Cardinality(ReadyCalls)
    /\ \A i \in ReadyCalls :
          \E n \in DOMAIN putLog :
             /\ putLog[n].Bucket = uploads[i].settings.bucketName
             /\ putLog[n].Key = uploads[i].key
             /\ uploads[i].key # <<>>
             /\ putLog[n].Body = uploads[i].file.content
             /\ putLog[n].ContentType = uploads[i].file.type

\* C21 witness: the PUT of a call was rejected and the call has returned its
\* failure with that one PUT sent
C21_Witness ==
    /\ Len(uploads) = 1
    /\ uploads[1].pc = "done"
    /\ uploads[1].failedAt = "put"
    /\ Len(putLog) = 1

\* C22: a call whose arrayBuffer() rejected has returned a failure whose
\* message begins with 'Failed to read file' followed by the rejection, not
\* with 'Upload failed', and no PUT was sent.
C22_ReadFailure ==
    \A i \in DOMAIN uploads :
        uploads[i].failedAt = "read" =>
            /\ uploads[i].pc = "done"
            /\ uploads[i].result.success = FALSE
            /\ Str(uploads[i].result.error)
                 = "Failed to read file: " \o Str(ErrorToString(uploads[i].cause))
            /\ uploads[i].result.error[1] # "Upload failed: "
            /\ putLog = <<>>

\* C22 witness: the only call failed on reading its file
C22_Witness ==
    /\ Len(uploads) = 1
    /\ uploads[1].failedAt = "read"
    /\ uploads[1].cause \in ReadErrors

\* C24: while an upload of the batch has not produced its outcome, no link has
\* been inserted, the line is as it was and no notice has been shown; links
\* and result notices exist only once every upload has its outcome.
C24_JoinBeforeInsertion ==
    /\ (\E i \in DOMAIN uploads : uploads[i].pc # "done") =>
          (editLog = <<>> /\ line = InitialLine /\ notices = <<>>)
    /\ (editLog # <<>> \/ (uploads # <<>> /\ notices # <<>>)) =>
          \A i \in DOMAIN uploads : uploads[i].pc = "done"

\* C24 witness: the second upload of a batch has succeeded while the first is
\* still reading its file, and nothing has been inserted or shown
C24_Witness ==
    /\ pc = "uploading"
    /\ Len(uploads) = 2
    /\ uploads[1].pc = "reading"
    /\ uploads[2].pc = "done"
    /\ uploads[2].result.success
    /\ editLog = <<>>
    /\ notices = <<>>

SettingsNotice == "R2 uploader settings are incomplete. Please check the plugin settings."

\* C25: after a gesture handled in a markdown view with incomplete required
\* settings, if the folder check passes (or enabledFolders is empty) exactly one
\* notice was shown, the settings notice, and if the folder check fails exactly
\* one notice was shown, the folder notice; in both cases no upload call was
\* made and no method of the event was called.
C25_GatingOrder ==
    (pc # "idle" /\ activeView /\ EmptyRequiredFields(settings) # {}) =>
        /\ Len(notices) = 1
        /\ IF Len(settings.enabledFolders) = 0
              \/ InListedFolder(activePath, settings.enabledFolders)
           THEN Str(notices[1].message) = SettingsNotice
           ELSE Str(notices[1].message) = "Current folder is not enabled for uploads"
        /\ uploads = <<>>
        /\ putLog = <<>>
        /\ eventCalls = {}

\* C25 witness: an image dropped outside the enabled folder with the bucket
\* name missing: only the folder notice
C25_Witness ==
    /\ pc = "done"
    /\ activeView
    /\ settings.bucketName = <<>>
    /\ settings.enabledFolders = <<DOCS>>
    /\ activePath = <<"o", "/", "a">>
    /\ dropped = <<PNG_A>>
    /\ Len(notices) = 1
    /\ FolderNoticeShown

\* C23: the promise of handleDrop / handlePaste is never rejected; for every
\* exception the editor raised inside the handler the handler has returned and
\* a notice 'Plugin error: <exception>' was shown.
C23_HandlersNeverReject ==
    /\ promises.handler.state # "rejected"
    /\ promises.thrown # <<>> =>
          /\ pc = "done"
          /\ promises.handler.state = "fulfilled"
          /\ \A j \in DOMAIN promises.thrown :
                \E n \in DOMAIN notices :
                   Str(notices[n].message)
                     = "Plugin error: " \o Str(ErrorToString(promises.thrown[j]))

\* C23 witness: two images dropped and uploaded, the second replaceRange threw
\* after the first link was inserted
C23_Witness ==
    /\ Len(files) = 2
    /\ promises.thrown # <<>>
    /\ Len(editLog) = 1
    /\ promises.handler.state = "fulfilled"

\* C26: when loadData rejects during onload, onload rejects with the same
\* error and that onload registers nothing: the settings tab and paste
\* registrations, the document listeners and the stored handlers are as before
\* the call, and no listener is on the document after the failed onload.
C26_FailedOnload ==
    /\ [](life = "failed" =>
            /\ listeners = {}
            /\ promises.onload.state = "rejected"
            /\ promises.onload.reason \in LoadErrors)
    /\ [][(life = "loading" /\ life' = "failed") =>
             /\ registrations' = registrations
             /\ listeners' = listeners
             /\ handlers' = handlers
             /\ settings' = settings]_vars
    /\ [](loads = 1 /\ life = "failed" => registrations = <<>> /\ handlers = 0)

\* C26 witness: the first onload failed on loadData
C26_Witness ==
    /\ loads = 1
    /\ life = "failed"
    /\ promises.onload = Rejected([kind |-> "Error",
                                   message |-> <<"L", "o", "a", "d", " ", "f", "a", "i", "l", "e", "d">>])
    /\ registrations = <<>>

\* C30: whenever no saveSettings call is in flight (no saveData call awaits
\* its result), the in-memory settings of the plugin equal the settings the
\* host holds, which are the last ones persisted successfully or, if none was,
\* the loaded ones; so a save whose saveData rejected has left the in-memory
\* settings as they were before the call.
C30_MemoryIsPersisted ==
    (\A i \in DOMAIN saves : saves[i].pc # "saving") => settings = loadSettings(stored)

\* the saves made by the settings tab
UiSaves == SelectSeq(saves, LAMBDA c : c.from = "ui")

\* the edits that end a burst: the last edit, and every edit the next edit
\* follows by DebounceDelay ms or more
BurstEnds ==
    {i \in DOMAIN tab.typed :
        i = Len(tab.typed) \/ tab.typed[i + 1].at >= tab.typed[i].at + DebounceDelay}

\* C27: at any time at most one debounce timer is pending; an edit makes no
\* saveSettings call; a save by the tab is made DebounceDelay ms after the last
\* edit, carries the key and the value of that edit on top of the current
\* settings, and leaves no timer pending; and the tab has made exactly one
\* save per finished burst of edits, each following the previous one by less
\* than DebounceDelay ms (the burst of the pending timer is not finished).
C27_Debounce ==
    /\ [](Cardinality(tab.timers) <= 1)
    /\ [](Len(UiSaves) = Cardinality(BurstEnds) - Cardinality(tab.timers))
    /\ [][tab'.edits # tab.edits => saves' = saves]_vars
    /\ [][Len(saves') > Len(saves) =>
            LET last == tab.typed[Len(tab.typed)]
                call == saves'[Len(saves')]
            IN  /\ Len(saves') = Len(saves) + 1
                /\ call.from = "ui"
                /\ now' = last.at + DebounceDelay
                /\ call.arg = updateSettings(settings, last.key, last.value)
                /\ call.arg[last.key] = last.value
                /\ tab'.timers = {}]_vars

\* C27 witness: two edits of bucketName 200 ms apart, the first one typing
\* "z" and the second one clearing the field, and one save, 500 ms after the
\* second edit, with the empty bucketName
C27_Witness ==
    /\ Len(tab.typed) = 2
    /\ tab.typed[1] = [key |-> "bucketName", value |-> <<"z">>, at |-> 9]
    /\ tab.typed[2] = [key |-> "bucketName", value |-> <<>>, at |-> 209]
    /\ now = 709
    /\ Len(saves) = 1
    /\ saves[1].arg.bucketName = <<>>
    /\ tab.timers = {}

\* the clicks of button b, as the set of their positions in tab.clicked
ClicksOf(b) == {c \in DOMAIN tab.clicked : tab.clicked[c].button = b}

\* C28: when two clicks on Remove for different entries, or two clicks on Add
\* for different names, were made from the same rendering of the tab, and
\* every save has been stored, the list of enabled folders in memory and in
\* the stored data lacks both removed entries, or holds both added names.
C28_FolderEditsKept ==
    (/\ Len(tab.clicked) = 2
     /\ tab.clicked[1].rendering = tab.clicked[2].rendering
     /\ tab.clicked[1].button = tab.clicked[2].button
     /\ tab.clicked[1].folder # tab.clicked[2].folder
     /\ Len(saves) = 2
     /\ \A i \in DOMAIN saves : saves[i].pc = "resolved")
    => LET folders == {settings.enabledFolders[j] : j \in DOMAIN settings.enabledFolders}
           kept == {stored.fields.enabledFolders[j] :
                       j \in DOMAIN stored.fields.enabledFolders}
       IN  /\ folders = kept
           /\ \A c \in ClicksOf("Remove") : tab.clicked[c].folder \notin folders
           /\ \A c \in ClicksOf("Add") : tab.clicked[c].folder \in folders

\* t is a contiguous part of ln
IsInfix(t, ln) ==
    \E k \in 0..(Len(ln) - Len(t)) : SubSeq(ln, k + 1, k + Len(t)) = t

\* the two handler calls
Gestures == {Running, suspended}

\* C29: with two batches in flight, a step that inserts into the editor inserts
\* all the links of one batch, each after the one before, as one block at the
\* cursor, ends that batch's insertion and is no step of the other batch; so
\* the replaceRange calls of a finished batch are consecutive and its links are
\* contiguous in the document.
C29_AtomicInsertion ==
    /\ [][editLog' # editLog =>
            LET links == LinksOf(Running)
                c == IF cursor > Len(line) THEN Len(line) ELSE cursor
            IN  /\ editLog' = editLog \o insertMarkdownCalls(links, cursor)
                /\ line' = SubSeq(line, 1, c) \o LinksText(links)
                               \o SubSeq(line, c + 1, Len(line))
                /\ pc' = "done"
                /\ suspended' = suspended]_vars
    /\ [](\A g \in Gestures :
             g.pc = "done" =>
                /\ IsInfix(LinksText(LinksOf(g)), line)
                /\ IsInfix([i \in 1..Len(LinksOf(g)) |-> markdownLinkText(LinksOf(g)[i])],
                           [i \in 1..Len(editLog) |-> editLog[i].text]))

\* C29 witness: the two images were dropped first and the single image while
\* their uploads were in flight; the single image's link was inserted first,
\* then the two links of the first batch, and all three are in the document
C29_Witness ==
    /\ pc = "done"
    /\ suspended.pc = "done"
    /\ nameCalls[1].originalName = PNG_A.name
    /\ Len(editLog) = 3
    /\ \E g \in Gestures :
          /\ g.files = <<PNG_B>>
          /\ editLog[1].text = markdownLinkText(LinksOf(g)[1])
    /\ \E g \in Gestures : g.files = <<PNG_A, PNG_A>> /\ Len(LinksOf(g)) = 2

====
